---- MODULE Spec2Model ----
(***************************************************************************)
(* A model of bytefall's generator machinery: the Generator object         *)
(* (objects/generatorobject.py), the frame and its block stack             *)
(* (objects/frameobject.py), the opcode handlers a generator body needs    *)
(* (ops.py) and the evaluation loop (vm.py), for the 3.6 wordcode VM       *)
(* (VirtualMachinePy36, CODE_UNIT = 2).                                    *)
(*                                                                         *)
(* Every Python value is a string: "None", "1", "True", an exception       *)
(* class "RuntimeError", an exception instance "RuntimeError(None)", a     *)
(* generator "G1", an iterator "IT", a bound method "G1.send".  The Python *)
(* call stack is the sequence calls of activation records; an activation   *)
(* runs up to its next call, and a callee hands its result back in ret.    *)
(***************************************************************************)
EXTENDS Naturals, Integers, Sequences, FiniteSets, TLC

VARIABLES
    frames,      \* frame id -> Frame object
    gens,        \* object id -> Generator object or AsyncGenASend object
    vm_frames,   \* VirtualMachine.frames (VirtualMachine.frame is its last)
    cache,       \* GlobalCache()._content
    f_globals,   \* the module's globals, shared by every frame
    it_kind,     \* what the non-generator iterator IT is
    it_pos,      \* how many items IT has produced
    calls,       \* the Python call stack, innermost activation first
    ret,         \* result of the activation that just finished
    ncalls,      \* calls the module code has made so far
    results      \* what each of those calls returned or raised

vars == <<frames, gens, vm_frames, cache, f_globals, it_kind, it_pos,
          calls, ret, ncalls, results>>

\* The module code makes at most MaxCalls calls on the generators.
MaxCalls == 3

\* A tuple iterator yields MaxItems items before StopIteration.
MaxItems == 1

---------------------------------------------------------------------------
(* Values *)

None == "None"

ExcClasses == {"RuntimeError", "GeneratorExit", "StopIteration", "TypeError",
               "ValueError", "AttributeError", "IndexError", "NameError",
               "SystemError", "VirtualMachineError", "StopAsyncIteration"}

MsgRunning == "generator already executing"
MsgJustStarted == "Can't send non-None value to a just-started generator"
MsgIgnored == "generator ignored GeneratorExit"
MsgNotCallable == "object is not callable"
MsgIssubclass == "issubclass() arg 1 must be a class"

MsgReturnedCoroutine == "__await__() returned a coroutine"
MsgNotConverted == "not all arguments converted during string formatting"
MsgCantAwait == "object can't be used in 'await' expression"
MsgAwaited == "coroutine is being awaited already"

Payloads == {None, "1", "2", "3", MsgRunning, MsgJustStarted, MsgIgnored,
             MsgNotCallable, MsgIssubclass, MsgReturnedCoroutine,
             MsgNotConverted, MsgCantAwait, MsgAwaited}

\* An exception instance cls(arg).
Inst(cls, arg) == cls \o "(" \o arg \o ")"

IsClass(x) == x \in ExcClasses

IsInst(x) == \E c \in ExcClasses, p \in Payloads : x = Inst(c, p)

\* type(x) of an exception instance, and its first argument.
TypeOf(x) == CHOOSE c \in ExcClasses : \E p \in Payloads : x = Inst(c, p)

ArgOf(x) == CHOOSE p \in Payloads : x = Inst(TypeOf(x), p)

\* issubclass(x, y) on the builtin exception classes.
IsSubclass(x, y) ==
    /\ x \in ExcClasses
    /\ \/ x = y
       \/ y = "BaseException"
       \/ y = "Exception" /\ x # "GeneratorExit"

GenIds == {"G1", "G2"}
FrameIds == {"F1", "F2"}
ModuleFrame == "F0"

\* Generator.gi_frame, fixed at construction.
FrameOf(g) == IF g = "G1" THEN "F1" ELSE "F2"

\* Frame.generator of a generator's frame.
FrameGen(f) == IF f = "F1" THEN "G1" ELSE "G2"

\* bool(x)
Truthy(x) == x \notin {None, "False", "0"}

Bool(b) == IF b THEN "True" ELSE "False"

---------------------------------------------------------------------------
(* Code objects (3.6 wordcode: every instruction is two bytes) *)

opmap ==
    [CALL_FUNCTION |-> 131, COMPARE_OP |-> 107, DUP_TOP |-> 4,
     END_FINALLY |-> 88, GET_YIELD_FROM_ITER |-> 69, JUMP_ABSOLUTE |-> 113,
     LOAD_ATTR |-> 106, LOAD_CONST |-> 100, LOAD_GLOBAL |-> 116,
     POP_BLOCK |-> 87, POP_EXCEPT |-> 89, POP_JUMP_IF_FALSE |-> 114,
     POP_TOP |-> 1, RAISE_VARARGS |-> 130, RETURN_VALUE |-> 83,
     SETUP_EXCEPT |-> 121, SETUP_FINALLY |-> 122, SETUP_LOOP |-> 120,
     SETUP_WITH |-> 143, WITH_CLEANUP_FINISH |-> 82, WITH_CLEANUP_START |-> 81,
     LOAD_CLOSURE |-> 135, LOAD_DEREF |-> 136, STORE_DEREF |-> 137,
     GET_AWAITABLE |-> 73, EXTENDED_ARG |-> 144, UNPACK_SEQUENCE |-> 92,
     BREAK_LOOP |-> 80, CONTINUE_LOOP |-> 119,
     YIELD_FROM |-> 72, YIELD_VALUE |-> 86]

\* dis.opname[opcode]; a byte that names no operation of the class gives a
\* name getattr does not find.
opname(opcode) ==
    IF \E n \in DOMAIN opmap : opmap[n] = opcode
    THEN CHOOSE n \in DOMAIN opmap : opmap[n] = opcode
    ELSE "<0>"

HAVE_ARGUMENT == 90

CODE_UNIT == 2

\* def gen(): yield 1; yield None; return 2
CodeGen ==
    [co_code |-> <<opmap.LOAD_CONST, 0, opmap.YIELD_VALUE, 0, opmap.POP_TOP, 0,
                   opmap.LOAD_CONST, 1, opmap.YIELD_VALUE, 0, opmap.POP_TOP, 0,
                   opmap.LOAD_CONST, 2, opmap.RETURN_VALUE, 0>>,
     co_consts |-> <<"1", None, "2">>,
     co_names |-> <<>>]

\* def make_gen():
\*     while True:
\*         try: yield c
\*         except GeneratorExit: pass
CodeIgnore(c) ==
    [co_code |-> <<opmap.SETUP_LOOP, 34, opmap.SETUP_EXCEPT, 10,
                   opmap.LOAD_CONST, 1, opmap.YIELD_VALUE, 0, opmap.POP_TOP, 0,
                   opmap.POP_BLOCK, 0, opmap.JUMP_ABSOLUTE, 2,
                   opmap.DUP_TOP, 0, opmap.LOAD_GLOBAL, 0, opmap.COMPARE_OP, 10,
                   opmap.POP_JUMP_IF_FALSE, 32, opmap.POP_TOP, 0,
                   opmap.POP_TOP, 0, opmap.POP_TOP, 0, opmap.POP_EXCEPT, 0,
                   opmap.JUMP_ABSOLUTE, 2, opmap.END_FINALLY, 0,
                   opmap.JUMP_ABSOLUTE, 2, opmap.POP_BLOCK, 0,
                   opmap.LOAD_CONST, 0, opmap.RETURN_VALUE, 0>>,
     co_consts |-> <<None, c>>,
     co_names |-> <<"GeneratorExit">>]

\* def outer(): yield from sub
CodeYieldFrom ==
    [co_code |-> <<opmap.LOAD_GLOBAL, 0, opmap.GET_YIELD_FROM_ITER, 0,
                   opmap.LOAD_CONST, 0, opmap.YIELD_FROM, 0, opmap.POP_TOP, 0,
                   opmap.LOAD_CONST, 0, opmap.RETURN_VALUE, 0>>,
     co_consts |-> <<None>>,
     co_names |-> <<"sub">>]

\* def selfish(): me.send(None)        (me is the generator itself)
CodeSelf ==
    [co_code |-> <<opmap.LOAD_GLOBAL, 0, opmap.LOAD_ATTR, 1,
                   opmap.LOAD_CONST, 0, opmap.CALL_FUNCTION, 1, opmap.POP_TOP, 0,
                   opmap.LOAD_CONST, 0, opmap.RETURN_VALUE, 0>>,
     co_consts |-> <<None>>,
     co_names |-> <<"me", "send">>]

\* async def agen(): yield 1; await sub      (sub gives its items to the
\* caller of the generator as they are)
CodeAGen ==
    [co_code |-> <<opmap.LOAD_CONST, 1, opmap.YIELD_VALUE, 0, opmap.POP_TOP, 0,
                   opmap.LOAD_GLOBAL, 0, opmap.GET_YIELD_FROM_ITER, 0,
                   opmap.LOAD_CONST, 0, opmap.YIELD_FROM, 0, opmap.POP_TOP, 0,
                   opmap.LOAD_CONST, 0, opmap.RETURN_VALUE, 0>>,
     co_consts |-> <<None, "1">>,
     co_names |-> <<"sub">>]

\* async def agen_raise(): yield 1; raise ValueError
CodeAGenRaise ==
    [co_code |-> <<opmap.LOAD_CONST, 1, opmap.YIELD_VALUE, 0, opmap.POP_TOP, 0,
                   opmap.LOAD_GLOBAL, 0, opmap.RAISE_VARARGS, 1,
                   opmap.LOAD_CONST, 0, opmap.RETURN_VALUE, 0>>,
     co_consts |-> <<None, "1">>,
     co_names |-> <<"ValueError">>]

\* async def waiter(): await sub       (getter GET_AWAITABLE)
\* async def waited(): await it        (it is the host iterator; the getter
\*                                      GET_YIELD_FROM_ITER stands for its
\*                                      __await__)
CodeAwait(name, getter) ==
    [co_code |-> <<opmap.LOAD_GLOBAL, 0, getter, 0,
                   opmap.LOAD_CONST, 0, opmap.YIELD_FROM, 0, opmap.POP_TOP, 0,
                   opmap.LOAD_CONST, 0, opmap.RETURN_VALUE, 0>>,
     co_consts |-> <<None>>,
     co_names |-> <<name>>]

CO_GENERATOR == 32
CO_COROUTINE == 128
CO_ASYNC_GENERATOR == 512

\* code.co_flags
co_flags(name) ==
    IF name \in {"agen", "agen_raise"} THEN CO_ASYNC_GENERATOR
    ELSE IF name \in {"await_sub", "await_it"} THEN CO_COROUTINE
    ELSE CO_GENERATOR

CodeNames == {"gen", "ignore1", "ignoreNone", "yield_from", "selfish",
              "await_sub"}

\* The handler of `except H:` that ends in the three instructions `last`,
\* and the instructions after the try statement.
ExceptClause(skip, last) ==
    <<opmap.DUP_TOP, 0, opmap.LOAD_GLOBAL, 1, opmap.COMPARE_OP, 10,
      opmap.POP_JUMP_IF_FALSE, skip, opmap.POP_TOP, 0, opmap.POP_TOP, 0,
      opmap.POP_TOP, 0>> \o last \o <<opmap.END_FINALLY, 0>>

\* The functions run_code runs; E, H and cm are globals of the module.
FnNames == {"reraise", "handled_then_raise", "bare_raise", "finally_exc",
            "finally_ret", "finally_pass", "vm_error", "with_raise", "with_ok",
            "closure", "await_o", "extended_jump", "extended_const",
            "unpack", "nested_raise", "loop_break_finally",
            "loop_continue_finally", "loop_except_ret", "loop_except_break",
            "loop_except_continue", "loop_raise", "nested_except",
            "with_in_except"}

FnCode(name) ==
    [co_code |->
       CASE name = "reraise" ->
              \* try: raise E
              \* except H: raise
              <<opmap.SETUP_EXCEPT, 8, opmap.LOAD_GLOBAL, 0,
                opmap.RAISE_VARARGS, 1, opmap.POP_BLOCK, 0,
                opmap.JUMP_ABSOLUTE, 30>>
              \o ExceptClause(28, <<opmap.RAISE_VARARGS, 0, opmap.POP_EXCEPT, 0>>)
              \o <<opmap.LOAD_CONST, 0, opmap.RETURN_VALUE, 0>>
         [] name = "handled_then_raise" ->
              \* try: raise E
              \* except H: pass
              \* raise
              <<opmap.SETUP_EXCEPT, 8, opmap.LOAD_GLOBAL, 0,
                opmap.RAISE_VARARGS, 1, opmap.POP_BLOCK, 0,
                opmap.JUMP_ABSOLUTE, 30>>
              \o ExceptClause(28, <<opmap.POP_EXCEPT, 0, opmap.JUMP_ABSOLUTE, 30>>)
              \o <<opmap.RAISE_VARARGS, 0, opmap.LOAD_CONST, 0,
                    opmap.RETURN_VALUE, 0>>
         [] name = "bare_raise" ->
              \* raise
              <<opmap.RAISE_VARARGS, 0, opmap.LOAD_CONST, 0,
                opmap.RETURN_VALUE, 0>>
         [] name = "finally_exc" ->
              \* try: raise E
              \* finally: return 2
              <<opmap.SETUP_FINALLY, 8, opmap.LOAD_GLOBAL, 0,
                opmap.RAISE_VARARGS, 1, opmap.POP_BLOCK, 0, opmap.LOAD_CONST, 0,
                opmap.LOAD_CONST, 1, opmap.RETURN_VALUE, 0,
                opmap.END_FINALLY, 0, opmap.LOAD_CONST, 0,
                opmap.RETURN_VALUE, 0>>
         [] name = "finally_ret" ->
              \* try: return 1
              \* finally: return 2
              <<opmap.SETUP_FINALLY, 8, opmap.LOAD_CONST, 2,
                opmap.RETURN_VALUE, 0, opmap.POP_BLOCK, 0, opmap.LOAD_CONST, 0,
                opmap.LOAD_CONST, 1, opmap.RETURN_VALUE, 0,
                opmap.END_FINALLY, 0, opmap.LOAD_CONST, 0,
                opmap.RETURN_VALUE, 0>>
         [] name = "finally_pass" ->
              \* try: raise E
              \* finally: pass
              <<opmap.SETUP_FINALLY, 8, opmap.LOAD_GLOBAL, 0,
                opmap.RAISE_VARARGS, 1, opmap.POP_BLOCK, 0, opmap.LOAD_CONST, 0,
                opmap.END_FINALLY, 0, opmap.LOAD_CONST, 0,
                opmap.RETURN_VALUE, 0>>
         [] name = "vm_error" ->
              \* try:
              \*     try: raise
              \*     except H: pass
              \* except: return 1
              <<opmap.SETUP_EXCEPT, 32, opmap.SETUP_EXCEPT, 6,
                opmap.RAISE_VARARGS, 0, opmap.POP_BLOCK, 0,
                opmap.JUMP_ABSOLUTE, 30>>
              \o ExceptClause(28, <<opmap.POP_EXCEPT, 0, opmap.JUMP_ABSOLUTE, 30>>)
              \o <<opmap.POP_BLOCK, 0, opmap.JUMP_ABSOLUTE, 44, opmap.POP_TOP, 0,
                    opmap.POP_TOP, 0, opmap.POP_TOP, 0, opmap.LOAD_CONST, 2,
                    opmap.RETURN_VALUE, 0, opmap.LOAD_CONST, 0,
                    opmap.RETURN_VALUE, 0>>
         [] name = "with_raise" ->
              \* with cm: raise E
              <<opmap.LOAD_GLOBAL, 2, opmap.SETUP_WITH, 10, opmap.POP_TOP, 0,
                opmap.LOAD_GLOBAL, 0, opmap.RAISE_VARARGS, 1, opmap.POP_BLOCK, 0,
                opmap.LOAD_CONST, 0, opmap.WITH_CLEANUP_START, 0,
                opmap.WITH_CLEANUP_FINISH, 0, opmap.END_FINALLY, 0,
                opmap.LOAD_CONST, 0, opmap.RETURN_VALUE, 0>>
         [] name = "with_ok" ->
              \* with cm: pass
              <<opmap.LOAD_GLOBAL, 2, opmap.SETUP_WITH, 6, opmap.POP_TOP, 0,
                opmap.POP_BLOCK, 0, opmap.LOAD_CONST, 0,
                opmap.WITH_CLEANUP_START, 0, opmap.WITH_CLEANUP_FINISH, 0,
                opmap.END_FINALLY, 0, opmap.LOAD_CONST, 0,
                opmap.RETURN_VALUE, 0>>
         [] name = "closure" ->
              \* x = 1
              \* def g(): return x     (up to LOAD_CLOSURE x, which stays on
              \* x = 2                   the stack and is returned)
              \* x
              <<opmap.LOAD_CONST, 2, opmap.STORE_DEREF, 0,
                opmap.LOAD_CLOSURE, 0, opmap.LOAD_CONST, 1,
                opmap.STORE_DEREF, 0, opmap.LOAD_DEREF, 0, opmap.POP_TOP, 0,
                opmap.RETURN_VALUE, 0>>
         [] name = "await_o" ->
              \* await o          (up to GET_AWAITABLE, whose result is returned)
              <<opmap.LOAD_GLOBAL, 3, opmap.GET_AWAITABLE, 0,
                opmap.RETURN_VALUE, 0>>
         [] name = "extended_jump" ->
              \* a jump whose target 0x010203 takes two prefixes
              <<opmap.EXTENDED_ARG, 1, opmap.EXTENDED_ARG, 2,
                opmap.JUMP_ABSOLUTE, 3, opmap.LOAD_CONST, 0,
                opmap.RETURN_VALUE, 0>>
         [] name = "extended_const" ->
              \* return 1        (the constant's index written with a prefix)
              <<opmap.EXTENDED_ARG, 0, opmap.LOAD_CONST, 2,
                opmap.RETURN_VALUE, 0>>
         [] name = "unpack" ->
              \* a, b = o        (up to UNPACK_SEQUENCE; None is returned)
              <<opmap.LOAD_GLOBAL, 3, opmap.UNPACK_SEQUENCE, 2,
                opmap.LOAD_CONST, 0, opmap.RETURN_VALUE, 0>>
         [] name = "nested_raise" ->
              \* try: raise E
              \* except:
              \*     try: f(2, raise E)     (E is raised with a value on the
              \*     finally: pass            stack)
              <<opmap.SETUP_EXCEPT, 8, opmap.LOAD_GLOBAL, 0,
                opmap.RAISE_VARARGS, 1, opmap.POP_BLOCK, 0,
                opmap.JUMP_ABSOLUTE, 32, opmap.POP_TOP, 0, opmap.POP_TOP, 0,
                opmap.POP_TOP, 0, opmap.SETUP_FINALLY, 10, opmap.LOAD_CONST, 1,
                opmap.LOAD_GLOBAL, 0, opmap.RAISE_VARARGS, 1,
                opmap.POP_BLOCK, 0, opmap.LOAD_CONST, 0, opmap.END_FINALLY, 0,
                opmap.POP_EXCEPT, 0, opmap.LOAD_CONST, 0,
                opmap.RETURN_VALUE, 0>>
         [] name = "loop_break_finally" ->
              \* while True:
              \*     try: break
              \*     finally: pass
              <<opmap.SETUP_LOOP, 14, opmap.SETUP_FINALLY, 6,
                opmap.BREAK_LOOP, 0, opmap.POP_BLOCK, 0, opmap.LOAD_CONST, 0,
                opmap.END_FINALLY, 0, opmap.JUMP_ABSOLUTE, 2,
                opmap.POP_BLOCK, 0, opmap.LOAD_CONST, 0,
                opmap.RETURN_VALUE, 0>>
         [] name = "loop_continue_finally" ->
              \* for x in it:            (the loop keeps a value on the stack
              \*     try: f(2, continue)   and the continue target is 4;
              \*     finally: 2            continue with a value on the stack)
              <<opmap.SETUP_LOOP, 22, opmap.LOAD_CONST, 2,
                opmap.SETUP_FINALLY, 8,
                opmap.LOAD_CONST, 1, opmap.CONTINUE_LOOP, 4,
                opmap.POP_BLOCK, 0, opmap.LOAD_CONST, 0,
                opmap.LOAD_CONST, 1, opmap.POP_TOP, 0,
                opmap.END_FINALLY, 0, opmap.JUMP_ABSOLUTE, 4,
                opmap.POP_BLOCK, 0, opmap.LOAD_CONST, 0,
                opmap.RETURN_VALUE, 0>>
         [] name = "loop_except_ret" ->
              \* while True:
              \*     try: return 1
              \*     except: pass
              <<opmap.SETUP_LOOP, 22, opmap.SETUP_EXCEPT, 8,
                opmap.LOAD_CONST, 2, opmap.RETURN_VALUE, 0,
                opmap.POP_BLOCK, 0, opmap.JUMP_ABSOLUTE, 2,
                opmap.POP_TOP, 0, opmap.POP_TOP, 0, opmap.POP_TOP, 0,
                opmap.POP_EXCEPT, 0, opmap.JUMP_ABSOLUTE, 2,
                opmap.POP_BLOCK, 0, opmap.LOAD_CONST, 0,
                opmap.RETURN_VALUE, 0>>
         [] name = "loop_except_break" ->
              \* while True:
              \*     try: f(2, break)
              \*     except: pass
              <<opmap.SETUP_LOOP, 22, opmap.SETUP_EXCEPT, 8,
                opmap.LOAD_CONST, 1, opmap.BREAK_LOOP, 0,
                opmap.POP_BLOCK, 0, opmap.JUMP_ABSOLUTE, 2,
                opmap.POP_TOP, 0, opmap.POP_TOP, 0, opmap.POP_TOP, 0,
                opmap.POP_EXCEPT, 0, opmap.JUMP_ABSOLUTE, 2,
                opmap.POP_BLOCK, 0, opmap.LOAD_CONST, 0,
                opmap.RETURN_VALUE, 0>>
         [] name = "loop_except_continue" ->
              \* while True:
              \*     try: continue
              \*     except: pass
              <<opmap.SETUP_LOOP, 20, opmap.SETUP_EXCEPT, 6,
                opmap.CONTINUE_LOOP, 2, opmap.POP_BLOCK, 0,
                opmap.JUMP_ABSOLUTE, 2,
                opmap.POP_TOP, 0, opmap.POP_TOP, 0, opmap.POP_TOP, 0,
                opmap.POP_EXCEPT, 0, opmap.JUMP_ABSOLUTE, 2,
                opmap.POP_BLOCK, 0, opmap.LOAD_CONST, 0,
                opmap.RETURN_VALUE, 0>>
         [] name = "loop_raise" ->
              \* while True: f(2, raise E)
              <<opmap.SETUP_LOOP, 10, opmap.LOAD_CONST, 1,
                opmap.LOAD_GLOBAL, 0, opmap.RAISE_VARARGS, 1,
                opmap.JUMP_ABSOLUTE, 2, opmap.POP_BLOCK, 0,
                opmap.LOAD_CONST, 0, opmap.RETURN_VALUE, 0>>
         [] name = "nested_except" ->
              \* try: raise E
              \* except:
              \*     try: raise H
              \*     except: pass
              <<opmap.SETUP_EXCEPT, 8, opmap.LOAD_GLOBAL, 0,
                opmap.RAISE_VARARGS, 1, opmap.POP_BLOCK, 0,
                opmap.JUMP_ABSOLUTE, 36, opmap.POP_TOP, 0, opmap.POP_TOP, 0,
                opmap.POP_TOP, 0, opmap.SETUP_EXCEPT, 8, opmap.LOAD_GLOBAL, 1,
                opmap.RAISE_VARARGS, 1, opmap.POP_BLOCK, 0,
                opmap.JUMP_ABSOLUTE, 34, opmap.POP_TOP, 0, opmap.POP_TOP, 0,
                opmap.POP_TOP, 0, opmap.POP_EXCEPT, 0, opmap.POP_EXCEPT, 0,
                opmap.LOAD_CONST, 0, opmap.RETURN_VALUE, 0>>
         [] name = "with_in_except" ->
              \* try: raise E
              \* except:
              \*     with cm: raise H
              <<opmap.SETUP_EXCEPT, 8, opmap.LOAD_GLOBAL, 0,
                opmap.RAISE_VARARGS, 1, opmap.POP_BLOCK, 0,
                opmap.JUMP_ABSOLUTE, 38, opmap.POP_TOP, 0, opmap.POP_TOP, 0,
                opmap.POP_TOP, 0, opmap.LOAD_GLOBAL, 2, opmap.SETUP_WITH, 10,
                opmap.POP_TOP, 0, opmap.LOAD_GLOBAL, 1,
                opmap.RAISE_VARARGS, 1, opmap.POP_BLOCK, 0,
                opmap.LOAD_CONST, 0, opmap.WITH_CLEANUP_START, 0,
                opmap.WITH_CLEANUP_FINISH, 0, opmap.END_FINALLY, 0,
                opmap.POP_EXCEPT, 0, opmap.LOAD_CONST, 0,
                opmap.RETURN_VALUE, 0>>,
     co_cellvars |-> IF name = "closure" THEN <<"x">> ELSE <<>>,
     co_consts |-> <<None, "2", "1">>,
     co_names |-> <<"E", "H", "cm", "o">>]

\* code.co_cellvars; the generator functions have none.
co_cellvars(name) == IF name \in FnNames THEN FnCode(name).co_cellvars ELSE <<>>

Code(name) ==
    CASE name = "gen" -> CodeGen
      [] name = "ignore1" -> CodeIgnore("1")
      [] name = "ignoreNone" -> CodeIgnore(None)
      [] name = "yield_from" -> CodeYieldFrom
      [] name = "selfish" -> CodeSelf
      [] name = "agen" -> CodeAGen
      [] name = "agen_raise" -> CodeAGenRaise
      [] name = "await_sub" -> CodeAwait("sub", opmap.GET_AWAITABLE)
      [] name = "await_it" -> CodeAwait("it", opmap.GET_YIELD_FROM_ITER)
      [] OTHER -> FnCode(name)

\* dis.hasconst, dis.hasname, dis.hasfree, dis.hasjrel: the collections of SPECIAL_OPCODE
\* that COLLECTION_PROCESS resolves.
hasconst == {opmap.LOAD_CONST}
hasname == {opmap.LOAD_GLOBAL, opmap.LOAD_ATTR}
hasfree == {opmap.LOAD_CLOSURE, opmap.LOAD_DEREF, opmap.STORE_DEREF}
hasjrel == {opmap.SETUP_LOOP, opmap.SETUP_EXCEPT, opmap.SETUP_FINALLY,
            opmap.SETUP_WITH}

---------------------------------------------------------------------------
(* Frame *)

MaxCells == 3

\* The cell object number n, holding value: make_cell gives a new object at
\* each call, and no code assigns cell_contents of an existing one.
make_cell(value, n) == "cell" \o ToString(n) \o "(" \o value \o ")"

\* cell.cell_contents
cell_contents(cell) ==
    CHOOSE v \in {None, "1", "2"} : \E n \in 0..MaxCells : cell = make_cell(v, n)

\* Frame.__init__; cells_made counts the cells made for the frame (history
\* only: it numbers the cell objects).
NewFrame(code, back, gen) ==
    [block_stack |-> <<>>,
     cells |-> IF co_cellvars(code) = <<>> THEN None
               ELSE [var \in {co_cellvars(code)[i] : i \in DOMAIN co_cellvars(code)}
                        |-> make_cell(None, (CHOOSE i \in DOMAIN co_cellvars(code) :
                                                 co_cellvars(code)[i] = var) - 1)],
     cells_made |-> Len(co_cellvars(code)),
     f_back |-> back, f_code |-> code, f_lasti |-> 0,
     f_trace |-> None, f_trace_lines |-> TRUE, f_trace_opcodes |-> FALSE,
     generator |-> gen, stack |-> <<>>]

top(f) == f.stack[Len(f.stack)]

push(f, v) == [f EXCEPT !.stack = Append(@, v)]

\* Frame.pop(i), as the frame it leaves; the popped value is peek(f, i).
peek(f, i) == f.stack[Len(f.stack) - i]

pop(f, i) ==
    [f EXCEPT !.stack = SubSeq(@, 1, Len(@) - i - 1)
                        \o SubSeq(@, Len(@) - i + 1, Len(@))]

\* Frame.popn(n), as the frame it leaves.
popn(f, n) == [f EXCEPT !.stack = SubSeq(@, 1, Len(@) - n)]

jump(f, target) == [f EXCEPT !.f_lasti = target]

Block(type, handler, level) == [handler |-> handler, level |-> level, type |-> type]

\* push_block with a level one above the depth of the value stack.
push_block_above(f, type, handler) ==
    [f EXCEPT !.block_stack = Append(@, Block(type, handler, Len(f.stack) + 1))]

push_block(f, type, handler) ==
    [f EXCEPT !.block_stack = Append(@, Block(type, handler, Len(f.stack)))]

\* pop_block that leaves the block on the block stack.
pop_block_keeps(f) == f

pop_block(f) == [f EXCEPT !.block_stack = SubSeq(@, 1, Len(@) - 1)]

\* unwind_block that leaves the value stack as it is.
unwind_block_keeps(f, block) == f

unwind_block(f, block) ==
    IF Len(f.stack) > block.level
    THEN [f EXCEPT !.stack = SubSeq(@, 1, block.level)]
    ELSE f

NoException == <<"NoneType", None, None>>

\* GlobalCache().get(key, NoException) for the two exception keys; an absent
\* key is the empty sequence.
GetExc(c, key) == IF c[key] = <<>> THEN NoException ELSE c[key]

\* unwind_except_handler that leaves the current exception as it is.
unwind_except_handler_no_restore(s, block) ==
    LET f1 == IF Len(s.fr.stack) > block.level + 3
              THEN [s.fr EXCEPT !.stack = SubSeq(@, 1, block.level + 3)]
              ELSE s.fr
    IN  [s EXCEPT !.fr = popn(f1, 3)]

\* Frame.unwind_except_handler on a state [fr, cache, ...].
unwind_except_handler(s, block) ==
    LET f1 == IF Len(s.fr.stack) > block.level + 3
              THEN [s.fr EXCEPT !.stack = SubSeq(@, 1, block.level + 3)]
              ELSE s.fr
        tb == peek(f1, 2)
        value == peek(f1, 1)
        exctype == peek(f1, 0)
    IN  [s EXCEPT !.fr = popn(f1, 3),
                  !.cache.new_exception = <<exctype, value, tb>>]

\* The integer a decimal string such as a saved jump target stands for.
IntOf(str) == CHOOSE n \in 0..255 : ToString(n) = str

\* manage_block_stack that enters an exception handler with why left as it
\* was.
manage_block_stack_keeps_why(s) ==
    LET f == s.fr
        block == f.block_stack[Len(f.block_stack)]
        popped == [s EXCEPT !.fr = pop_block(f)]
        unwound == [s EXCEPT !.fr = unwind_block(pop_block(f), block)]
        uf == unwound.fr
    IN  IF block.type = "loop" /\ s.why = "continue"
        THEN [s EXCEPT !.fr = jump(f, IntOf(s.cache.return_value)), !.why = None]
        ELSE IF block.type = "except-handler"
        THEN unwind_except_handler(popped, block)
        ELSE IF block.type = "loop" /\ s.why = "break"
        THEN [unwound EXCEPT !.fr = jump(uf, block.handler), !.why = None]
        ELSE IF s.why = "exception" /\ block.type \in {"setup-except", "finally"}
        THEN LET cur == GetExc(s.cache, "new_exception")
                 last == GetExc(s.cache, "last_exception")
                 f1 == push_block(uf, "except-handler", None)
                 f2 == [f1 EXCEPT !.stack = @ \o <<cur[3], cur[2], cur[1],
                                                   last[3], last[2], last[1]>>]
             IN  [cache |-> [s.cache EXCEPT !.last_exception = <<>>,
                                            !.new_exception = last],
                  fr |-> jump(f2, block.handler),
                  why |-> s.why]
        ELSE IF block.type = "finally"
        THEN LET f1 == IF s.why \in {"return", "continue"}
                       THEN push(uf, s.cache.return_value)
                       ELSE uf
             IN  [unwound EXCEPT !.fr = jump(push(f1, s.why), block.handler),
                                 !.why = None]
        ELSE unwound

\* Frame.manage_block_stack on a state [fr, cache, why].
manage_block_stack(s) ==
    LET f == s.fr
        block == f.block_stack[Len(f.block_stack)]
        popped == [s EXCEPT !.fr = pop_block(f)]
        unwound == [s EXCEPT !.fr = unwind_block(pop_block(f), block)]
        uf == unwound.fr
    IN  IF block.type = "loop" /\ s.why = "continue"
        THEN [s EXCEPT !.fr = jump(f, IntOf(s.cache.return_value)), !.why = None]
        ELSE IF block.type = "except-handler"
        THEN unwind_except_handler(popped, block)
        ELSE IF block.type = "loop" /\ s.why = "break"
        THEN [unwound EXCEPT !.fr = jump(uf, block.handler), !.why = None]
        ELSE IF s.why = "exception" /\ block.type \in {"setup-except", "finally"}
        THEN LET cur == GetExc(s.cache, "new_exception")
                 last == GetExc(s.cache, "last_exception")
                 f1 == push_block(uf, "except-handler", None)
                 f2 == [f1 EXCEPT !.stack = @ \o <<cur[3], cur[2], cur[1],
                                                   last[3], last[2], last[1]>>]
             IN  [cache |-> [s.cache EXCEPT !.last_exception = <<>>,
                                            !.new_exception = last],
                  fr |-> jump(f2, block.handler),
                  why |-> None]
        ELSE IF block.type = "finally"
        THEN LET f1 == IF s.why \in {"return", "continue"}
                       THEN push(uf, s.cache.return_value)
                       ELSE uf
             IN  [unwound EXCEPT !.fr = jump(push(f1, s.why), block.handler),
                                 !.why = None]
        ELSE unwound

\* run's drain of the block stack: while why and frame.block_stack.
RECURSIVE unwind(_)
unwind(s) ==
    IF s.why # None /\ s.fr.block_stack # <<>>
    THEN unwind(manage_block_stack(s))
    ELSE s

---------------------------------------------------------------------------
(* Opcode handlers.  A handler takes the frame f and the cache c and gives  *)
(* the record Res: the frame and cache it leaves, the why it returns, the   *)
(* exception it raises (exc, "" for none), whether it marks the frame's     *)
(* generator finished (fin), and the call it makes before it can go on      *)
(* (call, <<>> for none).                                                   *)

Res(f, c, why) ==
    [cache |-> c, call |-> <<>>, exc |-> "", fin |-> FALSE, fr |-> f, why |-> why]

Raise(f, c, e) == [Res(f, c, None) EXCEPT !.exc = e]

Call(f, c, call) == [Res(f, c, None) EXCEPT !.call = call]

POP_TOP(f, c) == Res(pop(f, 0), c, None)

DUP_TOP(f, c) == Res(push(f, top(f)), c, None)

LOAD_CONST(f, c, const) == Res(push(f, const), c, None)

LOAD_GLOBAL(f, c, name, globals) ==
    IF name \in DOMAIN globals THEN Res(push(f, globals[name]), c, None)
    ELSE IF name \in ExcClasses THEN Res(push(f, name), c, None)
    ELSE Raise(f, c, Inst("NameError", None))

\* getattr(obj, attr): the generators have the method send.
LOAD_ATTR(f, c, attr) ==
    LET obj == top(f)
    IN  IF obj \in GenIds /\ attr = "send"
        THEN Res(push(pop(f, 0), obj \o "." \o attr), c, None)
        ELSE Raise(pop(f, 0), c, Inst("AttributeError", None))

\* exception_match(x, y): "True", "False", or the TypeError issubclass raises
\* for an x that is no class.
exception_match(x, y) ==
    IF x = "NoneType" THEN "False"
    ELSE IF ~IsClass(x) THEN Inst("TypeError", MsgIssubclass)
    ELSE Bool((IsSubclass(x, "Exception") \/ IsSubclass(x, "BaseException"))
              /\ IsSubclass(x, y))

\* COMPARE_OPERATORS[10] is exception_match, [8] is `is`.
COMPARE_OP(f, c, opnum) ==
    LET x == peek(f, 1)
        y == peek(f, 0)
        f1 == popn(f, 2)
        r == IF opnum = 10 THEN exception_match(x, y) ELSE Bool(x = y)
    IN  IF IsInst(r) THEN Raise(f1, c, r) ELSE Res(push(f1, r), c, None)

JUMP_ABSOLUTE(f, c, target) == Res(jump(f, target), c, None)

\* The tuple of the values of s, as a value.
RECURSIVE TupleItems(_)
TupleItems(s) == IF s = <<>> THEN "" ELSE Head(s) \o "," \o TupleItems(Tail(s))

Tuple(s) == "(" \o TupleItems(s) \o ")"

MaxTuple == 3

\* The tuples the module holds in o, and the items of such a tuple.
TupleSeqs == UNION {[1..n -> {"1", "2"}] : n \in 0..MaxTuple}

TupleValues == {Tuple(s) : s \in TupleSeqs}

items(v) == CHOOSE s \in TupleSeqs : Tuple(s) = v

\* seq[::-1]
Reversed(s) == [i \in 1..Len(s) |-> s[Len(s) + 1 - i]]

\* UNPACK_SEQUENCE: seq = frame.pop(); frame.push(*seq[::-1])
UNPACK_SEQUENCE(f, c, count) ==
    LET seq == items(top(f))
        f1 == pop(f, 0)
    IN  Res([f1 EXCEPT !.stack = @ \o Reversed(seq)], c, None)

\* GlobalCache().set(key, value) and GlobalCache().pop(key)
cache_set(c, key, value) ==
    [k \in DOMAIN c \cup {key} |-> IF k = key THEN value ELSE c[k]]

cache_pop(c, key) == [k \in DOMAIN c \ {key} |-> c[k]]

\* Operation.EXTENDED_ARG of the bytecode before 3.6: count << 16
EXTENDED_ARG_py34(f, c, count) ==
    Res(f, cache_set(c, "oparg", count * 65536), "extended_arg")

\* EXTENDED_ARG that keeps count as it is.
EXTENDED_ARG_no_shift(f, c, count) ==
    Res(f, cache_set(c, "oparg", count), "extended_arg")

\* OperationPy36.EXTENDED_ARG: count << 8
EXTENDED_ARG(f, c, count) ==
    Res(f, cache_set(c, "oparg", count * 256), "extended_arg")

POP_JUMP_IF_FALSE(f, c, target) ==
    LET val == top(f)
        f1 == pop(f, 0)
    IN  Res(IF ~Truthy(val) THEN jump(f1, target) ELSE f1, c, None)

SETUP_LOOP(f, c, dest) == Res(push_block(f, "loop", dest), c, None)

BREAK_LOOP(f, c) == Res(f, c, "break")

\* The jump target is kept in return_value as its decimal string.
CONTINUE_LOOP(f, c, dest) ==
    Res(f, [c EXCEPT !.return_value = ToString(dest)], "continue")

LOAD_CLOSURE(f, c, name) == Res(push(f, f.cells[name]), c, None)

LOAD_DEREF(f, c, name) == Res(push(f, cell_contents(f.cells[name])), c, None)

STORE_DEREF(f, c, name) ==
    Res([pop(f, 0) EXCEPT !.cells[name] = make_cell(top(f), f.cells_made),
                          !.cells_made = @ + 1],
        c, None)

\* The objects `await` is applied to: a Coroutine of the machine that has not
\* started, objects whose __await__() returns a Coroutine, a generator with
\* the coroutine flag, the iterator IT, the number 1 or None, and the number
\* 1, which has no __await__.
AwaitArgs == {"CORO", "AW_CORO", "AW_GENCORO", "AW_IT", "AW_1", "AW_None", "1"}

\* o.__await__() of the objects that have the method.
await_result(o) ==
    CASE o = "AW_CORO" -> "CORO"
      [] o = "AW_GENCORO" -> "GENCORO"
      [] o = "AW_IT" -> "IT"
      [] o = "AW_1" -> "1"
      [] o = "AW_None" -> None

\* _gen_yf: the sub-iterator a frame suspended at YIELD_FROM delegates to.
gen_yf(f) ==
    LET co_code == Code(f.f_code).co_code
    IN  IF f.f_lasti < Len(co_code)
        THEN IF co_code[f.f_lasti + 1] # opmap.YIELD_FROM THEN None ELSE top(f)
        ELSE None

\* isinstance(o, (Coroutine, CoroWrapper)): the Coroutine CORO, or the object
\* Function.__call__ makes of a frame whose code has the flag CO_COROUTINE.
IsCoroutine(o) ==
    \/ o = "CORO"
    \/ o \in GenIds /\ co_flags(frames[FrameOf(o)].f_code) = CO_COROUTINE

\* isinstance(o, Generator)
IsGenerator(o) == o \in GenIds /\ ~IsCoroutine(o)

\* gen_is_coroutine(o): a generator whose code has the flag 0x0080; none of
\* the objects is a generator with the flag 0x0100 of
\* gen_is_iterable_coroutine.
gen_is_coroutine(o) == o = "GENCORO"

\* _coro_get_awaitable_iter(o): [kind, val]; iter(res) fails on the Coroutine,
\* which has no __iter__, and on the number, and the message built in the
\* except clause has no conversion for its argument.
coro_get_awaitable_iter(o) ==
    IF IsCoroutine(o) THEN [kind |-> "return", val |-> o]
    ELSE IF o = "1"
    THEN [kind |-> "raise", val |-> Inst("TypeError", MsgCantAwait)]
    ELSE LET res == await_result(o)
         IN  IF ~Truthy(res) THEN [kind |-> "return", val |-> res]
             ELSE IF IsCoroutine(o) \/ gen_is_coroutine(res)
             THEN [kind |-> "raise", val |-> Inst("TypeError", MsgReturnedCoroutine)]
             ELSE IF res \in {"CORO", "1"}
             THEN [kind |-> "raise", val |-> Inst("TypeError", MsgNotConverted)]
             ELSE [kind |-> "return", val |-> res]

\* GET_AWAITABLE; _gen_yf of the Coroutine CORO, which has not started, is
\* None.
GET_AWAITABLE(f, c) ==
    LET r == coro_get_awaitable_iter(top(f))
        yf == IF r.kind = "return" /\ r.val \in GenIds /\ IsCoroutine(r.val)
              THEN gen_yf(frames[FrameOf(r.val)])
              ELSE None
    IN  IF r.kind = "raise" THEN Raise(pop(f, 0), c, r.val)
        ELSE IF yf # None
        THEN Raise(pop(f, 0), c, Inst("RuntimeError", MsgAwaited))
        ELSE Res(push(pop(f, 0), r.val), c, None)

SETUP_EXCEPT(f, c, dest) == Res(push_block(f, "setup-except", dest), c, None)

WhyStrings == {"return", "continue", "break", "exception", "reraise", "yield",
               "silenced"}

SETUP_FINALLY(f, c, dest) == Res(push_block(f, "finally", dest), c, None)

\* do_raise without its copy of the current exception into last_exception.
do_raise_keeps_cache(f, c, exc, cause) ==
    IF exc = None THEN Res(f, c, "reraise")
    ELSE IF ~IsClass(exc) /\ ~IsInst(exc) THEN Res(f, c, "exception")
    ELSE IF cause # None /\ ~IsClass(cause) /\ ~IsInst(cause)
    THEN Res(f, c, "exception")
    ELSE LET val == IF IsClass(exc) THEN Inst(exc, None) ELSE exc
         IN  Res(f, [c EXCEPT !.last_exception = <<TypeOf(val), val, None>>],
                 "exception")

\* do_raise: the cache it leaves and the why it returns.
do_raise(f, c, exc, cause) ==
    IF exc = None
    THEN LET triple == GetExc(c, "new_exception")
         IN  Res(f, [c EXCEPT !.last_exception = triple],
                 IF triple[1] = None THEN "exception" ELSE "reraise")
    ELSE IF ~IsClass(exc) /\ ~IsInst(exc) THEN Res(f, c, "exception")
    ELSE IF cause # None /\ ~IsClass(cause) /\ ~IsInst(cause)
    THEN Res(f, c, "exception")
    ELSE LET val == IF IsClass(exc) THEN Inst(exc, None) ELSE exc
         IN  Res(f, [c EXCEPT !.last_exception = <<TypeOf(val), val, None>>],
                 "exception")

\* RAISE_VARARGS: ret = [None]*2; ret[:argc] = frame.popn(argc).
RAISE_VARARGS(f, c, argc) ==
    LET args == SubSeq(f.stack, Len(f.stack) - argc + 1, Len(f.stack))
    IN  do_raise(popn(f, argc), c,
                 IF argc >= 1 THEN args[1] ELSE None,
                 IF argc >= 2 THEN args[2] ELSE None)

\* SETUP_WITH up to its call ctxmgr.__enter__() ...
SETUP_WITH(f, c) ==
    LET ctxmgr == top(f)
        f1 == pop(f, 0)
    IN  IF ctxmgr # "CM" THEN Raise(f1, c, Inst("AttributeError", None))
        ELSE Call(push(f1, "CM.__exit__"), c, <<"__enter__", ctxmgr>>)

\* ... and from the call's result r on.
SETUP_WITH_result(f, c, dest, r) ==
    IF r.kind = "raise" THEN Raise(f, c, r.val)
    ELSE Res(push(push_block(f, "finally", dest), r.val), c, None)

\* The stack WITH_CLEANUP_START leaves before it calls exit_func(u, v, w),
\* <<>> when its last case applies; u is the value on top.
WithCleanupStack(f, u) ==
    LET n == Len(f.stack)
    IN  IF u = None THEN pop(f, 1).stack
        ELSE IF u \in WhyStrings
        THEN IF u \in {"return", "continue"} THEN pop(f, 2).stack
             ELSE pop(f, 1).stack
        ELSE IF IsClass(u)
        THEN SubSeq(f.stack, 1, n - 7) \o SubSeq(f.stack, n - 5, n - 3)
             \o <<None>> \o SubSeq(f.stack, n - 2, n)
        ELSE <<>>

\* WITH_CLEANUP_START that leaves the except-handler block at its level.
WITH_CLEANUP_START_keeps_level(f, c) ==
    LET u == top(f)
        f1 == [f EXCEPT !.stack = WithCleanupStack(f, u)]
    IN  IF u # None /\ u \notin WhyStrings /\ ~IsClass(u)
        THEN IF u = "NoneType"
             THEN Raise(f, c, Inst("VirtualMachineError", None))
             ELSE Raise(f, c, Inst("TypeError", MsgIssubclass))
        ELSE Call(f1, c, <<"__exit__", "CM", IF IsClass(u) THEN u ELSE None>>)

\* WITH_CLEANUP_START up to its call exit_func(u, v, w) ...
WITH_CLEANUP_START(f, c) ==
    LET u == top(f)
        block == f.block_stack[Len(f.block_stack)]
        f1 == [f EXCEPT !.stack = WithCleanupStack(f, u)]
        f2 == IF IsClass(u)
              THEN [pop_block(f1) EXCEPT !.block_stack =
                       Append(@, Block(block.type, block.handler, block.level - 1))]
              ELSE f1
    IN  IF u # None /\ u \notin WhyStrings /\ ~IsClass(u)
        THEN IF u = "NoneType"
             THEN Raise(f, c, Inst("VirtualMachineError", None))
             ELSE Raise(f, c, Inst("TypeError", MsgIssubclass))
        ELSE Call(f2, c, <<"__exit__", "CM", IF IsClass(u) THEN u ELSE None>>)

\* ... and from the call's result r on: frame.push(*(u, exit_ret)); u is the
\* exception class the first part left on top of the stack, else None.
WITH_CLEANUP_START_result(f, c, r) ==
    LET u == IF IsClass(top(f)) THEN top(f) ELSE None
    IN  IF r.kind = "raise" THEN Raise(f, c, r.val)
        ELSE Res(push(push(f, u), r.val), c, None)

WITH_CLEANUP_FINISH(f, c) ==
    LET u == peek(f, 1)
        exit_ret == peek(f, 0)
        f1 == popn(f, 2)
    IN  Res(IF u # None /\ Truthy(exit_ret) THEN push(f1, "silenced") ELSE f1,
            c, None)

POP_BLOCK(f, c) ==
    IF f.block_stack = <<>> THEN Raise(f, c, Inst("IndexError", None))
    ELSE Res(pop_block(f), c, None)

POP_EXCEPT(f, c) ==
    LET block == f.block_stack[Len(f.block_stack)]
        s == unwind_except_handler([cache |-> c, fr |-> pop_block(f)], block)
    IN  IF block.type # "except-handler"
        THEN Raise(pop_block(f), c, Inst("SystemError", None))
        ELSE Res(s.fr, s.cache, None)

\* END_FINALLY that takes the marker 'continue' for the end of a finally
\* clause entered normally.
END_FINALLY_no_continue(f, c) ==
    LET v == top(f)
        f1 == pop(f, 0)
    IN  IF v = "continue" THEN Res(pop(f1, 0), c, None)
        ELSE IF v \in WhyStrings
        THEN IF v = "return"
             THEN Res(pop(f1, 0), [c EXCEPT !.return_value = top(f1)], v)
             ELSE IF v = "silenced"
             THEN LET block == f1.block_stack[Len(f1.block_stack)]
                      s == unwind_except_handler(
                               [cache |-> c, fr |-> pop_block(f1)], block)
                  IN  Res(s.fr, s.cache, None)
             ELSE Res(f1, c, v)
        ELSE IF v = None THEN Res(f1, c, None)
        ELSE IF IsClass(v)
        THEN Res(popn(f1, 2),
                 [c EXCEPT !.last_exception = <<v, peek(f1, 0), peek(f1, 1)>>],
                 "exception")
        ELSE IF v = "NoneType"
        THEN Raise(f1, c, Inst("VirtualMachineError", None))
        ELSE Raise(f1, c, Inst("TypeError", MsgIssubclass))

END_FINALLY(f, c) ==
    LET v == top(f)
        f1 == pop(f, 0)
    IN  IF v \in WhyStrings
        THEN IF v \in {"return", "continue"}
             THEN Res(pop(f1, 0), [c EXCEPT !.return_value = top(f1)], v)
             ELSE IF v = "silenced"
             THEN LET block == f1.block_stack[Len(f1.block_stack)]
                      s == unwind_except_handler(
                               [cache |-> c, fr |-> pop_block(f1)], block)
                  IN  Res(s.fr, s.cache, None)
             ELSE Res(f1, c, v)
        ELSE IF v = None THEN Res(f1, c, None)
        ELSE IF IsClass(v)
        THEN Res(popn(f1, 2),
                 [c EXCEPT !.last_exception = <<v, peek(f1, 0), peek(f1, 1)>>],
                 "exception")
        ELSE IF v = "NoneType"
        THEN Raise(f1, c, Inst("VirtualMachineError", None))
        ELSE Raise(f1, c, Inst("TypeError", MsgIssubclass))

\* AsyncGenWrappedValue(value) and its agw_val.
AsyncGenWrappedValue(value) == "wrapped(" \o value \o ")"

IsWrapped(x) == \E v \in {None, "1", "2"} : x = AsyncGenWrappedValue(v)

agw_val(w) == CHOOSE v \in {None, "1", "2"} : w = AsyncGenWrappedValue(v)

\* OperationPy36.YIELD_VALUE
YIELD_VALUE(f, c) ==
    LET retval == IF (co_flags(f.f_code) \div CO_ASYNC_GENERATOR) % 2 = 1
                  THEN AsyncGenWrappedValue(top(f))
                  ELSE top(f)
    IN  Res(pop(f, 0), [c EXCEPT !.return_value = retval], "yield")

\* RETURN_VALUE that keeps a return value already set.
RETURN_VALUE_keeps_first(f, c) ==
    [Res(pop(f, 0),
         IF c.return_value = None THEN [c EXCEPT !.return_value = top(f)] ELSE c,
         "return")
        EXCEPT !.fin = (f.generator # None)]

RETURN_VALUE(f, c) ==
    [Res(pop(f, 0), [c EXCEPT !.return_value = top(f)], "return")
        EXCEPT !.fin = (f.generator # None)]

Iterators == GenIds \cup {"IT"}

\* iter(x) of a generator or an iterator is x itself.
GET_YIELD_FROM_ITER(f, c) ==
    IF top(f) \in Iterators THEN Res(f, c, None)
    ELSE Raise(f, c, Inst("TypeError", None))

\* YIELD_FROM up to its call x.send(u) or next(x) ...
YIELD_FROM(f, c) ==
    LET u == top(f)
        f1 == pop(f, 0)
        x == top(f1)
    IN  IF x \in GenIds THEN Call(f1, c, <<"send", x, u>>)
        ELSE IF x \in Iterators THEN Call(f1, c, <<"next", x>>)
        ELSE Raise(f1, c, Inst("TypeError", None))

\* YIELD_FROM_result that leaves the cursor where it is.
YIELD_FROM_result_no_rewind(f, c, r) ==
    IF r.kind = "return"
    THEN Res(f, [c EXCEPT !.return_value = r.val], "yield")
    ELSE IF TypeOf(r.val) = "StopIteration"
    THEN Res(push(pop(f, 0), ArgOf(r.val)), c, None)
    ELSE Raise(f, c, r.val)

\* ... and from the call's result r on.
YIELD_FROM_result(f, c, r) ==
    IF r.kind = "return"
    THEN Res(jump(f, f.f_lasti - CODE_UNIT), [c EXCEPT !.return_value = r.val],
             "yield")
    ELSE IF TypeOf(r.val) = "StopIteration"
    THEN Res(push(pop(f, 0), ArgOf(r.val)), c, None)
    ELSE Raise(f, c, r.val)

\* call_function up to the call func(*posargs), for oparg < 256 ...
CALL_FUNCTION(f, c, arg) ==
    LET posargs == SubSeq(f.stack, Len(f.stack) - arg + 1, Len(f.stack))
        f1 == popn(f, arg)
        func == top(f1)
        f2 == pop(f1, 0)
    IN  IF \E g \in GenIds : func = g \o ".send" /\ arg = 1
        THEN Call(f2, c, <<"send",
                           CHOOSE g \in GenIds : func = g \o ".send",
                           posargs[1]>>)
        ELSE Raise(f2, c, Inst("TypeError", MsgNotCallable))

\* ... and from the call's result r on.
CALL_FUNCTION_result(f, c, r) ==
    IF r.kind = "return" THEN Res(push(f, r.val), c, None)
    ELSE Raise(f, c, r.val)

---------------------------------------------------------------------------
(* The evaluation loop (VirtualMachinePy36) *)

\* VirtualMachine.frame
vm_frame(fs) == IF fs = <<>> THEN None ELSE fs[Len(fs)]

\* Whether co_code[f_lasti:f_lasti+2] has the two bytes parse_byte_and_args
\* unpacks.
can_parse(f) == f.f_lasti + 2 <= Len(Code(f.f_code).co_code)

\* a | b of two natural numbers
RECURSIVE BitOr(_, _)
BitOr(a, b) ==
    IF b = 0 THEN a
    ELSE IF a = 0 THEN b
    ELSE (IF a % 2 = 1 \/ b % 2 = 1 THEN 1 ELSE 0) + 2 * BitOr(a \div 2, b \div 2)

\* VirtualMachinePy36.parse_byte_and_args(arg_offset): the operation's name,
\* its resolved argument (None when the opcode is below HAVE_ARGUMENT and
\* takes none) and the frame with the cursor moved on.
parse_byte_and_args_at(f, arg_offset) ==
    LET code == Code(f.f_code)
        opcode == code.co_code[f.f_lasti + 1]
        int_arg == BitOr(code.co_code[f.f_lasti + 2], arg_offset)
        f1 == [f EXCEPT !.f_lasti = @ + 2]
        arg == IF opcode < HAVE_ARGUMENT THEN None
               ELSE IF opcode \in hasconst THEN code.co_consts[int_arg + 1]
               ELSE IF opcode \in hasname THEN code.co_names[int_arg + 1]
               ELSE IF opcode \in hasfree THEN code.co_cellvars[int_arg + 1]
               ELSE IF opcode \in hasjrel THEN f1.f_lasti + int_arg
               ELSE int_arg
    IN  [arg |-> arg, fr |-> f1, name |-> opname(opcode)]

\* VirtualMachinePy34.parse_byte_and_args: the argument of an instruction of
\* three bytes, lo and hi its argument bytes.
int_arg_py34(lo, hi, arg_offset) == BitOr(lo + hi * 256, arg_offset)

\* parse_byte_and_args() with the default arg_offset = 0
parse_byte_and_args(f) == parse_byte_and_args_at(f, 0)

\* getattr(self.cls_op, byte_name)(self.frame, *arguments)
handler(name, arg, f, c, globals) ==
    CASE name = "POP_TOP" -> POP_TOP(f, c)
      [] name = "DUP_TOP" -> DUP_TOP(f, c)
      [] name = "LOAD_CONST" -> LOAD_CONST(f, c, arg)
      [] name = "LOAD_GLOBAL" -> LOAD_GLOBAL(f, c, arg, globals)
      [] name = "LOAD_ATTR" -> LOAD_ATTR(f, c, arg)
      [] name = "COMPARE_OP" -> COMPARE_OP(f, c, arg)
      [] name = "JUMP_ABSOLUTE" -> JUMP_ABSOLUTE(f, c, arg)
      [] name = "POP_JUMP_IF_FALSE" -> POP_JUMP_IF_FALSE(f, c, arg)
      [] name = "SETUP_LOOP" -> SETUP_LOOP(f, c, arg)
      [] name = "BREAK_LOOP" -> BREAK_LOOP(f, c)
      [] name = "CONTINUE_LOOP" -> CONTINUE_LOOP(f, c, arg)
      [] name = "SETUP_EXCEPT" -> SETUP_EXCEPT(f, c, arg)
      [] name = "POP_BLOCK" -> POP_BLOCK(f, c)
      [] name = "POP_EXCEPT" -> POP_EXCEPT(f, c)
      [] name = "END_FINALLY" -> END_FINALLY(f, c)
      [] name = "YIELD_VALUE" -> YIELD_VALUE(f, c)
      [] name = "RETURN_VALUE" -> RETURN_VALUE(f, c)
      [] name = "GET_YIELD_FROM_ITER" -> GET_YIELD_FROM_ITER(f, c)
      [] name = "YIELD_FROM" -> YIELD_FROM(f, c)
      [] name = "CALL_FUNCTION" -> CALL_FUNCTION(f, c, arg)
      [] name = "RAISE_VARARGS" -> RAISE_VARARGS(f, c, arg)
      [] name = "LOAD_CLOSURE" -> LOAD_CLOSURE(f, c, arg)
      [] name = "GET_AWAITABLE" -> GET_AWAITABLE(f, c)
      [] name = "LOAD_DEREF" -> LOAD_DEREF(f, c, arg)
      [] name = "STORE_DEREF" -> STORE_DEREF(f, c, arg)
      [] name = "SETUP_FINALLY" -> SETUP_FINALLY(f, c, arg)
      [] name = "SETUP_WITH" -> SETUP_WITH(f, c)
      [] name = "WITH_CLEANUP_START" -> WITH_CLEANUP_START(f, c)
      [] name = "WITH_CLEANUP_FINISH" -> WITH_CLEANUP_FINISH(f, c)
      [] name = "EXTENDED_ARG" -> EXTENDED_ARG(f, c, arg)
      [] name = "UNPACK_SEQUENCE" -> UNPACK_SEQUENCE(f, c, arg)
      [] OTHER -> Raise(f, c, Inst("AttributeError", None))

\* The handler's part after the call it made returned or raised r; local is
\* what the handler kept in a local variable across the call.
handler_result(name, f, c, local, r) ==
    CASE name = "YIELD_FROM" -> YIELD_FROM_result(f, c, r)
      [] name = "SETUP_WITH" -> SETUP_WITH_result(f, c, local, r)
      [] name = "WITH_CLEANUP_START" -> WITH_CLEANUP_START_result(f, c, r)
      [] OTHER -> CALL_FUNCTION_result(f, c, r)

\* dispatch's except clause: an exception a handler raised becomes
\* last_exception and why = 'exception'.
dispatch(r) ==
    IF r.exc # ""
    THEN [r EXCEPT !.why = "exception", !.exc = "",
                   !.cache.last_exception = <<TypeOf(r.exc), r.exc, None>>]
    ELSE r

\* after_dispatch that drains the block stack for 'yield' as well.
after_dispatch_unwinds_yield(f, c, why) ==
    LET why1 == IF why = "reraise" THEN "exception" ELSE why
    IN  unwind([cache |-> c, fr |-> f, why |-> why1])

\* run, from dispatch's why to the test that leaves the loop: 'reraise'
\* becomes 'exception' and every why but 'yield' drains the block stack.
after_dispatch(f, c, why) ==
    LET why1 == IF why = "reraise" THEN "exception" ELSE why
        s == [cache |-> c, fr |-> f, why |-> why1]
    IN  IF why1 # "yield" THEN unwind(s) ELSE s

\* six.reraise(*triple): the exception instance it raises.
reraise(triple) ==
    IF triple = <<>> THEN Inst("TypeError", None)
    ELSE IF triple[2] # None
    THEN IF IsInst(triple[2]) THEN triple[2] ELSE Inst("AttributeError", None)
    ELSE IF IsClass(triple[1]) THEN Inst(triple[1], None)
    ELSE IF triple[1] = "NoneType" THEN Inst("AttributeError", None)
    ELSE Inst("TypeError", MsgNotCallable)

---------------------------------------------------------------------------
(* Tracing: vm.settrace, _call_trace, _call_trace_protected,                *)
(* _maybe_call_line_trace.  The operators work on the cache; the call of    *)
(* the trace function itself is an activation of its own.                   *)

\* GlobalCache().get(key, default)
cache_get(c, key, default) == IF key \in DOMAIN c THEN c[key] ELSE default

\* vm.settrace(func, arg)
settrace(c, func, arg) ==
    cache_set(cache_set(cache_set(c, "tracefunc", func), "traceobj", arg),
              "use_tracing", func # None)

\* _call_trace without its test of the tracing flag.
_call_trace_no_tracing_test(c, func) ==
    IF func = None
    THEN [called |-> FALSE, cache |-> c]
    ELSE [called |-> TRUE,
          cache |-> cache_set(cache_set(c, "tracing", TRUE),
                              "use_tracing", FALSE)]

\* _call_trace up to result = func(obj, frame, what, arg): whether func is
\* called, and the cache it is called with.
_call_trace(c, func) ==
    IF cache_get(c, "tracing", FALSE) \/ func = None
    THEN [called |-> FALSE, cache |-> c]
    ELSE [called |-> TRUE,
          cache |-> cache_set(cache_set(c, "tracing", TRUE),
                              "use_tracing", FALSE)]

\* _call_trace after func has returned.
_call_trace_end(c) ==
    cache_set(cache_set(c, "use_tracing", cache_get(c, "tracefunc", None) # None),
              "tracing", FALSE)

_call_trace_protected(c) ==
    IF ~cache_get(c, "use_tracing", FALSE) \/ cache_get(c, "tracefunc", None) = None
    THEN [called |-> FALSE, cache |-> c]
    ELSE _call_trace(c, cache_get(c, "tracefunc", None))

\* check_line_number(co, lasti): the loop over the (address, line) increments
\* of co_lnotab, from entry i on, and the triple (line, lb, ub) it returns.
RECURSIVE check_line_number_loop(_, _, _, _, _, _)
check_line_number_loop(lnotab, lasti, addr, line, lb, i) ==
    LET size == Len(lnotab) \div 2 - i
        addr_offset == lnotab[2 * i + 1]
        line_offset == lnotab[2 * i + 2]
    IN  IF size > 0 /\ ~(addr + addr_offset > lasti)
        THEN check_line_number_loop(lnotab, lasti, addr + addr_offset,
                                    line + line_offset, addr + addr_offset, i + 1)
        ELSE [line |-> line, lb |-> lb,
              ub |-> IF size > 0 THEN addr + addr_offset ELSE 32767]

check_line_number(co, lasti) ==
    check_line_number_loop(co.co_lnotab, lasti, 0, co.co_firstlineno, 0, 0)

\* co_firstlineno and co_lnotab of the code objects: the second line of the
\* source starts at the instruction 2 and the third at the instruction 6.
CodeLines(name) == [co_firstlineno |-> 1, co_lnotab |-> <<2, 1, 4, 1>>]

\* _maybe_call_line_trace(frame) up to its first call of _call_trace: the
\* event that is due, None for none.
_maybe_call_line_trace(f, c) ==
    IF cache_get(c, "tracing", FALSE) \/ cache_get(c, "tracefunc", None) = None
    THEN None
    ELSE IF /\ f.f_lasti = check_line_number(CodeLines(f.f_code), f.f_lasti).lb
            /\ f.f_trace_lines
    THEN "line"
    ELSE IF f.f_trace_opcodes THEN "opcode"
    ELSE None

---------------------------------------------------------------------------
(* Activations *)

NoRet == [kind |-> "none", val |-> None]

Act(fn, gen, frame, value, exc) ==
    [exc |-> exc, fn |-> fn, frame |-> frame, gen |-> gen, op |-> "",
     pc |-> "start", saved |-> <<>>, val |-> None, value |-> value,
     why |-> None, yf |-> None]

\* func(obj, frame, what, arg) of a trace function.
TraceAct(func, obj, frame, what, arg) ==
    [Act(func, None, frame, arg, None) EXCEPT !.op = what, !.val = obj]

\* The running activation.
Cur == Head(calls)

\* The scratch values a nested run may overwrite; a run activation keeps in
\* `saved` what they were when its handler made a call (history only: the
\* code keeps no such copy).
Scratch(c) == <<c.return_value, c.last_exception>>

Running(fn, pc) == calls # <<>> /\ Cur.fn = fn /\ Cur.pc = pc

\* The running activation returns v to its caller.
Return(v) == calls' = Tail(calls) /\ ret' = [kind |-> "return", val |-> v]

\* The running activation raises the exception instance e.
Throw(e) == calls' = Tail(calls) /\ ret' = [kind |-> "raise", val |-> e]

\* The running activation, changed to act, calls callee.
Invoke(callee, act) == calls' = <<callee, act>> \o Tail(calls) /\ ret' = NoRet

\* The running activation goes on as act.
Goto(act) == calls' = <<act>> \o Tail(calls) /\ ret' = NoRet

---------------------------------------------------------------------------
(* Generator: gen_send_ex and VirtualMachine.resume_frame / run *)

\* send_guard without its test of gi_running.
send_guard_no_running(g, value, gs, fs) ==
    IF gs[g].finished THEN Inst("StopIteration", None)
    ELSE IF fs[FrameOf(g)].f_lasti = 0 /\ value # None
    THEN Inst("TypeError", MsgJustStarted)
    ELSE ""

\* send_guard without its test of a non-None value at cursor 0.
send_guard_no_just_started(g, value, gs, fs) ==
    IF gs[g].gi_running THEN Inst("ValueError", MsgRunning)
    ELSE IF gs[g].finished THEN Inst("StopIteration", None)
    ELSE ""

\* gen_send_ex's three guards, in the order the code tests them: the
\* exception to raise, or "" when the frame is to be resumed.
send_guard(g, value, gs, fs) ==
    IF gs[g].gi_running THEN Inst("ValueError", MsgRunning)
    ELSE IF gs[g].finished THEN Inst("StopIteration", None)
    ELSE IF fs[FrameOf(g)].f_lasti = 0 /\ value # None
    THEN Inst("TypeError", MsgJustStarted)
    ELSE ""

\* gen_send_ex up to vm.resume_frame(gen.gi_frame, exc=exc).
gen_send_ex_start ==
    /\ Running("gen_send_ex", "start")
    /\ LET g == Cur.gen
           e == send_guard(g, Cur.value, gens, frames)
       IN  IF e # ""
           THEN /\ Throw(e)
                /\ UNCHANGED <<frames, gens>>
           ELSE /\ frames' = [frames EXCEPT ![FrameOf(g)] = push(@, Cur.value)]
                /\ gens' = [gens EXCEPT ![g].gi_running = TRUE]
                /\ Invoke(Act("resume_frame", None, FrameOf(g), None, Cur.exc),
                          [Cur EXCEPT !.pc = "resumed"])
    /\ UNCHANGED <<vm_frames, cache, f_globals, it_kind, it_pos, ncalls, results>>

\* send_result raising a bare StopIteration.
send_result_no_value(finished, val) ==
    IF finished THEN [kind |-> "raise", val |-> Inst("StopIteration", None)]
    ELSE [kind |-> "return", val |-> val]

\* What gen_send_ex does with the value val the run returned.
send_result(finished, val) ==
    IF finished THEN [kind |-> "raise", val |-> Inst("StopIteration", val)]
    ELSE [kind |-> "return", val |-> val]

\* gen_send_ex from the finally clause on.
gen_send_ex_resumed ==
    /\ Running("gen_send_ex", "resumed")
    /\ gens' = [gens EXCEPT ![Cur.gen].gi_running = FALSE]
    /\ calls' = Tail(calls)
    /\ ret' = IF ret.kind = "raise" THEN ret
              ELSE send_result(gens[Cur.gen].finished, ret.val)
    /\ UNCHANGED <<frames, vm_frames, cache, f_globals, it_kind, it_pos,
                   ncalls, results>>

\* The f_back that resume_frame leaves once run has returned val.
unlink(f) == [f EXCEPT !.f_back = None]

\* VirtualMachine.resume_frame up to self.run(frame, exc=exc).
resume_frame_start ==
    /\ Running("resume_frame", "start")
    /\ frames' = [frames EXCEPT ![Cur.frame].f_back = vm_frame(vm_frames)]
    /\ Invoke(Act("run", None, Cur.frame, None, Cur.exc),
              [Cur EXCEPT !.pc = "ran"])
    /\ UNCHANGED <<gens, vm_frames, cache, f_globals, it_kind, it_pos, ncalls,
                   results>>

\* VirtualMachine.resume_frame after run: an exception passes through, a
\* value is returned after frame.f_back = None.
resume_frame_ran ==
    /\ Running("resume_frame", "ran")
    /\ calls' = Tail(calls)
    /\ ret' = ret
    /\ frames' = IF ret.kind = "raise" THEN frames
                 ELSE [frames EXCEPT ![Cur.frame] = unlink(@)]
    /\ UNCHANGED <<gens, vm_frames, cache, f_globals, it_kind, it_pos, ncalls,
                   results>>

\* run: push_frame(frame), then _call_trace_protected(self.frame, 'call',
\* None).
traced_start(t) ==
    IF t.called
    THEN /\ cache' = t.cache
         /\ Invoke(TraceAct(cache.tracefunc, cache.traceobj, Cur.frame, "call",
                            None),
                   [Cur EXCEPT !.pc = "traced_call"])
    ELSE /\ cache' = cache
         /\ Goto([Cur EXCEPT !.pc = "loop"])

run_start ==
    /\ Running("run", "start")
    /\ vm_frames' = Append(vm_frames, Cur.frame)
    /\ traced_start(_call_trace_protected(cache))
    /\ UNCHANGED <<frames, gens, f_globals, it_kind, it_pos, ncalls, results>>

\* The activation of the call a handler makes: x.send(u), next(x), or a
\* method of the context manager.
CallAct(call) ==
    IF call[1] = "send" THEN Act("gen_send_ex", call[2], None, call[3], None)
    ELSE [Act("native", call[2], None, None, None) EXCEPT !.pc = call[1]]

\* The end of one pass of run's loop for the frame `fid` run was called on:
\* r is what dispatch gave for the frame `cur` it ran the handler on.  With
\* why = 'extended_arg' the pass goes on to the prefixed instruction.
LoopTail(fid, fs1, c, reason, gs) ==
    LET s == after_dispatch(fs1[fid], c, reason)
    IN  /\ frames' = [fs1 EXCEPT ![fid] = s.fr]
        /\ cache' = s.cache
        /\ gens' = gs
        /\ Goto([Cur EXCEPT !.pc = IF s.why # None THEN "exit" ELSE "loop",
                            !.why = s.why, !.exc = None, !.op = "",
                            !.saved = <<>>, !.val = None])

\* _call_exc_trace(self.frame) with a trace function func installed:
\* last_exception is popped, handed to func as arg and set again.
exc_trace(fid, cur, fs1, c, func, arg, t) ==
    IF t.called
    THEN /\ frames' = fs1
         /\ cache' = t.cache
         /\ gens' = gens
         /\ Invoke(TraceAct(func, c.traceobj, cur, "exception", arg),
                   [Cur EXCEPT !.pc = "traced_exception", !.exc = None,
                               !.saved = arg])
    ELSE LoopTail(fid, fs1, [c EXCEPT !.last_exception = arg], "exception", gens)

LoopEnd(fid, cur, r) ==
    LET fs1 == [frames EXCEPT ![cur] = r.fr]
        func == cache_get(r.cache, "tracefunc", None)
    IN  IF r.why = "extended_arg"
        THEN /\ frames' = fs1
             /\ cache' = r.cache
             /\ gens' = gens
             /\ Goto([Cur EXCEPT !.pc = "extended_arg", !.exc = None])
        ELSE IF r.why = "exception" /\ func # None
        THEN exc_trace(fid, cur, fs1, r.cache, func,
                       GetExc(r.cache, "last_exception"),
                       _call_trace([r.cache EXCEPT !.last_exception = <<>>],
                                   func))
        ELSE LoopTail(fid, fs1, r.cache, r.why,
                      IF r.fin /\ r.fr.generator # None
                      THEN [gens EXCEPT ![r.fr.generator].finished = TRUE]
                      ELSE gens)

\* dispatch's result r for the instruction name(arg), dispatched with the
\* cache c: the handler's call, or the end of the pass.
dispatch_from(cur, name, arg, r, c) ==
    IF r.call # <<>>
    THEN /\ frames' = [frames EXCEPT ![cur] = r.fr]
         /\ Invoke(CallAct(r.call),
                   [Cur EXCEPT !.pc = "in_op", !.op = name,
                               !.saved = Scratch(c), !.val = arg])
         /\ cache' = c
         /\ gens' = gens
    ELSE LoopEnd(Cur.frame, cur, r)

\* dispatch up to the trace function's call for the event `what` that
\* _maybe_call_line_trace found due for the parsed instruction p.
line_trace(cur, p, c, what) ==
    /\ frames' = [frames EXCEPT ![cur] = p.fr]
    /\ cache' = _call_trace(c, c.tracefunc).cache
    /\ gens' = gens
    /\ Invoke(TraceAct(c.tracefunc, c.traceobj, cur, what, None),
              [Cur EXCEPT !.pc = "traced_" \o what, !.op = p.name,
                          !.val = p.arg,
                          !.saved = <<c.tracefunc, c.traceobj>>])

\* why = self.dispatch(byte_name, arguments) for the parsed instruction p:
\* _maybe_call_line_trace first, then the handler.
parse_and_dispatch(cur, p, c) ==
    IF _maybe_call_line_trace(p.fr, c) # None
    THEN line_trace(cur, p, c, _maybe_call_line_trace(p.fr, c))
    ELSE dispatch_from(cur, p.name, p.arg,
                       dispatch(handler(p.name, p.arg, p.fr, c, f_globals)), c)

\* One pass of run's loop on self.frame = cur: the injected exception, or
\* parse and dispatch of the instruction at the cursor.
loop_pass(cur) ==
    IF Cur.exc # None
    THEN LoopEnd(Cur.frame, cur, Res(frames[cur], cache, "exception"))
    ELSE IF ~can_parse(frames[cur])
    THEN /\ Throw(Inst("ValueError", None))
         /\ UNCHANGED <<frames, cache, gens>>
    ELSE parse_and_dispatch(cur, parse_byte_and_args(frames[cur]), cache)

run_loop ==
    /\ Running("run", "loop")
    /\ loop_pass(vm_frame(vm_frames))
    /\ UNCHANGED <<vm_frames, f_globals, it_kind, it_pos, ncalls, results>>

\* The rest of a handler whose call has returned or raised, and the end of
\* that pass of the loop.
run_in_op ==
    /\ Running("run", "in_op")
    /\ LET cur == vm_frame(vm_frames)
       IN  LoopEnd(Cur.frame, cur,
                   dispatch(handler_result(Cur.op, frames[cur], cache, Cur.val,
                                           ret)))
    /\ UNCHANGED <<vm_frames, f_globals, it_kind, it_pos, ncalls, results>>

\* run with why = 'extended_arg': the pending oparg is popped, and the next
\* instruction is parsed with it as arg_offset and dispatched.
extended_arg_pass(cur, arg_offset, c) ==
    IF ~can_parse(frames[cur])
    THEN /\ Throw(Inst("ValueError", None))
         /\ cache' = c
         /\ UNCHANGED <<frames, gens>>
    ELSE parse_and_dispatch(cur, parse_byte_and_args_at(frames[cur], arg_offset),
                            c)

run_extended_arg ==
    /\ Running("run", "extended_arg")
    /\ extended_arg_pass(vm_frame(vm_frames), cache.oparg,
                         cache_pop(cache, "oparg"))
    /\ UNCHANGED <<vm_frames, f_globals, it_kind, it_pos, ncalls, results>>

\* pop_frame, then the value or the pending exception.
exit_tail(reason, retval, c) ==
    /\ vm_frames' = SubSeq(vm_frames, 1, Len(vm_frames) - 1)
    /\ IF reason = "exception"
       THEN Throw(reraise(c.last_exception))
       ELSE Return(retval)

traced_exit(func, t) ==
    IF t.called
    THEN /\ cache' = t.cache
         /\ vm_frames' = vm_frames
         /\ Invoke(TraceAct(func, cache.traceobj, vm_frame(vm_frames), "return",
                            IF Cur.why = "exception" THEN None
                            ELSE cache.return_value),
                   [Cur EXCEPT !.pc = "traced_return",
                               !.val = cache.return_value])
    ELSE /\ cache' = cache
         /\ exit_tail(Cur.why, cache.return_value, cache)

\* run after the loop: the 'return' event (_call_trace for a return or a
\* yield, _call_trace_protected for an exception), then pop_frame and the
\* value or the pending exception.
run_exit ==
    /\ Running("run", "exit")
    /\ traced_exit(cache_get(cache, "tracefunc", None),
                   IF Cur.why \in {"return", "yield"}
                   THEN _call_trace(cache, cache_get(cache, "tracefunc", None))
                   ELSE IF Cur.why = "exception"
                   THEN _call_trace_protected(cache)
                   ELSE [called |-> FALSE, cache |-> cache])
    /\ UNCHANGED <<frames, gens, f_globals, it_kind, it_pos, ncalls, results>>

TracedPcs ==
    {"traced_call", "traced_line", "traced_opcode", "traced_exception",
     "traced_return"}

\* run from the return of the trace function on, with c the cache as
\* _call_trace leaves it.
after_trace(cur, c) ==
    IF Cur.pc = "traced_call"
    THEN /\ cache' = c
         /\ Goto([Cur EXCEPT !.pc = "loop"])
         /\ UNCHANGED <<frames, gens, vm_frames>>
    ELSE IF Cur.pc = "traced_line" /\ frames[cur].f_trace_opcodes
    THEN /\ cache' = _call_trace(c, Cur.saved[1]).cache
         /\ Invoke(TraceAct(Cur.saved[1], Cur.saved[2], cur, "opcode", None),
                   [Cur EXCEPT !.pc = "traced_opcode"])
         /\ UNCHANGED <<frames, gens, vm_frames>>
    ELSE IF Cur.pc \in {"traced_line", "traced_opcode"}
    THEN /\ dispatch_from(cur, Cur.op, Cur.val,
                          dispatch(handler(Cur.op, Cur.val, frames[cur], c,
                                           f_globals)), c)
         /\ UNCHANGED vm_frames
    ELSE IF Cur.pc = "traced_exception"
    THEN /\ LoopTail(Cur.frame, frames, [c EXCEPT !.last_exception = Cur.saved],
                     "exception", gens)
         /\ UNCHANGED vm_frames
    ELSE /\ cache' = c
         /\ exit_tail(IF Cur.why \in {"return", "yield"} /\ ret.val # "0"
                      THEN "exception" ELSE Cur.why,
                      Cur.val, c)
         /\ UNCHANGED <<frames, gens>>

\* An exception of the trace function leaves run as it is (_call_trace has
\* no finally clause, run no handler); otherwise _call_trace ends and run
\* goes on after the place that called it.
run_traced ==
    /\ calls # <<>> /\ Cur.fn = "run" /\ Cur.pc \in TracedPcs
    /\ ret.kind # "none"
    /\ IF ret.kind = "raise"
       THEN /\ Throw(ret.val)
            /\ UNCHANGED <<frames, gens, cache, vm_frames>>
       ELSE after_trace(vm_frame(vm_frames), _call_trace_end(cache))
    /\ UNCHANGED <<f_globals, it_kind, it_pos, ncalls, results>>

---------------------------------------------------------------------------
(* Generator: throw and close *)

\* inspect.isclass(o); the module object `inspect` is no class.
inspect_isclass(o) == IsClass(o)

\* type(x) of an exception class or instance.
type(x) == IF IsInst(x) THEN TypeOf(x) ELSE "type"

\* match_exception(x, y); isinstance(_cls, y) is false of every class _cls.
match_exception(x, y) ==
    LET cls == IF ~inspect_isclass("inspect") THEN type(x) ELSE x
    IN  IsSubclass(cls, y)

\* getattr(yf, 'throw', None) and getattr(yf, 'close', None) of the iterator
\* IT: a tuple iterator has neither method, a host generator has both.
has_method(kind) == kind = "native"

\* gen_throw up to its first call.
gen_throw_start ==
    /\ Running("gen_throw", "start")
    /\ LET g == Cur.gen
           yf == gen_yf(frames[FrameOf(g)])
           act == [Cur EXCEPT !.yf = yf]
       IN  IF yf # None
           THEN IF match_exception(Cur.exc, "GeneratorExit")
                THEN /\ gens' = [gens EXCEPT ![g].gi_running = TRUE]
                     /\ Invoke(Act("gen_close_iter", yf, None, None, None),
                               [act EXCEPT !.pc = "closed"])
                     /\ cache' = cache
                ELSE IF yf \in GenIds
                THEN /\ gens' = [gens EXCEPT ![g].gi_running = TRUE]
                     /\ Invoke(Act("gen_throw", yf, None, None, Cur.exc),
                               [act EXCEPT !.pc = "thrown"])
                     /\ cache' = cache
                ELSE IF ~has_method(it_kind)
                THEN /\ gens' = [gens EXCEPT ![g].finished = TRUE]
                     /\ Throw(reraise(<<Cur.exc, Cur.val, None>>))
                     /\ cache' = cache
                ELSE /\ gens' = [gens EXCEPT ![g].gi_running = TRUE]
                     /\ Invoke([Act("native", yf, None, None, Cur.exc)
                                   EXCEPT !.pc = "throw"],
                               [act EXCEPT !.pc = "thrown"])
                     /\ cache' = cache
           ELSE /\ cache' = [cache EXCEPT
                                !.last_exception = <<Cur.exc, Cur.val, None>>]
                /\ Invoke(Act("gen_send_ex", g, None, None, Cur.exc),
                          [act EXCEPT !.pc = "sent_exc"])
                /\ gens' = gens
    /\ UNCHANGED <<frames, vm_frames, f_globals, it_kind, it_pos, ncalls, results>>

\* gen_throw after gen_close_iter(yf).
gen_throw_closed ==
    /\ Running("gen_throw", "closed")
    /\ IF ret.kind = "raise"
       THEN /\ Throw(ret.val)
            /\ gens' = gens
       ELSE IF ret.val = "-1"
       THEN /\ gens' = [gens EXCEPT ![Cur.gen].gi_running = FALSE]
            /\ Invoke(Act("gen_send_ex", Cur.gen, None, None, "GeneratorExit"),
                      [Cur EXCEPT !.pc = "sent_exit"])
       ELSE /\ gens' = [gens EXCEPT ![Cur.gen].gi_running = FALSE,
                                    ![Cur.gen].finished = TRUE]
            /\ Throw(reraise(<<Cur.exc, Cur.val, None>>))
    /\ UNCHANGED <<frames, vm_frames, cache, f_globals, it_kind, it_pos, ncalls,
                   results>>

\* gen_throw after gen.send(None, exc=GeneratorExit): GeneratorExit is
\* swallowed and val returned.
gen_throw_sent_exit ==
    /\ Running("gen_throw", "sent_exit")
    /\ IF ret.kind = "return" THEN Return(ret.val)
       ELSE IF TypeOf(ret.val) = "GeneratorExit" THEN Return(Cur.val)
       ELSE Throw(ret.val)
    /\ UNCHANGED <<frames, gens, vm_frames, cache, f_globals, it_kind, it_pos,
                   ncalls, results>>

\* The generator after yf.throw(...) has returned or raised: a Generator
\* sub-iterator is thrown into under try/finally, another iterator (a
\* Coroutine too) is not.
after_yf_throw(gen, yf, raised) ==
    IF IsGenerator(yf) THEN [gen EXCEPT !.finished = TRUE, !.gi_running = FALSE]
    ELSE IF raised THEN gen
    ELSE [gen EXCEPT !.gi_running = FALSE]

\* gen_throw after the sub-iterator's throw: its exception passes through,
\* its value is returned, and on None the generator is resumed past
\* YIELD_FROM (f_lasti += 1).
gen_throw_thrown ==
    /\ Running("gen_throw", "thrown")
    /\ gens' = [gens EXCEPT
                   ![Cur.gen] = after_yf_throw(@, Cur.yf, ret.kind = "raise")]
    /\ IF ret.kind = "raise"
       THEN /\ Throw(ret.val)
            /\ frames' = frames
       ELSE IF ret.val # None
       THEN /\ Return(ret.val)
            /\ frames' = frames
       ELSE /\ frames' = [frames EXCEPT ![FrameOf(Cur.gen)] =
                             [pop(@, 0) EXCEPT !.f_lasti = @ + 1]]
            /\ Invoke(Act("gen_send_ex", Cur.gen, None, None, None),
                      [Cur EXCEPT !.pc = "sent"])
    /\ UNCHANGED <<vm_frames, cache, f_globals, it_kind, it_pos, ncalls, results>>

\* gen_throw: ret = gen.send(val); return ret.
gen_throw_sent ==
    /\ Running("gen_throw", "sent")
    /\ calls' = Tail(calls)
    /\ ret' = ret
    /\ UNCHANGED <<frames, gens, vm_frames, cache, f_globals, it_kind, it_pos,
                   ncalls, results>>

\* gen_throw without a sub-iterator, after gen.send(None, exc=exctype): the
\* finally clause marks the generator finished.
gen_throw_sent_exc ==
    /\ Running("gen_throw", "sent_exc")
    /\ gens' = [gens EXCEPT ![Cur.gen].finished = TRUE]
    /\ calls' = Tail(calls)
    /\ ret' = ret
    /\ UNCHANGED <<frames, vm_frames, cache, f_globals, it_kind, it_pos, ncalls,
                   results>>

\* gen_close: the exception injected after the sub-iterator was closed with
\* result err.
close_exc(err) == IF err = "0" THEN "GeneratorExit" ELSE None

\* gen_close from `if err == 0` to gen.send(None, exc=exc).
CloseSend(err) ==
    /\ cache' = IF err = "0"
                THEN [cache EXCEPT
                         !.last_exception = <<"GeneratorExit", None, None>>]
                ELSE cache
    /\ Invoke(Act("gen_send_ex", Cur.gen, None, None, close_exc(err)),
              [Cur EXCEPT !.pc = "sent", !.exc = close_exc(err)])

\* gen_close up to its first call.
gen_close_start ==
    /\ Running("gen_close", "start")
    /\ LET yf == gen_yf(frames[FrameOf(Cur.gen)])
       IN  IF yf # None
           THEN /\ gens' = [gens EXCEPT ![Cur.gen].gi_running = TRUE]
                /\ Invoke(Act("gen_close_iter", yf, None, None, None),
                          [Cur EXCEPT !.pc = "closed", !.yf = yf])
                /\ cache' = cache
           ELSE /\ CloseSend("0")
                /\ gens' = gens
    /\ UNCHANGED <<frames, vm_frames, f_globals, it_kind, it_pos, ncalls, results>>

\* The exceptions gen_close's except clause takes as a normal close.
ClosedNormally(e) == TypeOf(e) \in {"StopIteration", "GeneratorExit"}

\* gen_close after gen_close_iter(yf).
gen_close_closed ==
    /\ Running("gen_close", "closed")
    /\ IF ret.kind = "raise"
       THEN /\ IF ClosedNormally(ret.val)
               THEN /\ gens' = [gens EXCEPT ![Cur.gen].finished = TRUE]
                    /\ Return(None)
               ELSE /\ gens' = gens
                    /\ Throw(ret.val)
            /\ cache' = cache
       ELSE /\ gens' = [gens EXCEPT ![Cur.gen].gi_running = FALSE]
            /\ CloseSend(ret.val)
    /\ UNCHANGED <<frames, vm_frames, f_globals, it_kind, it_pos, ncalls, results>>

\* gen_close's answer to the value retval that gen.send returned.
close_verdict(retval) ==
    IF retval # None
    THEN [kind |-> "raise", val |-> Inst("RuntimeError", MsgIgnored)]
    ELSE [kind |-> "return", val |-> "-1"]

\* gen_close after gen.send(None, exc=exc).
gen_close_sent ==
    /\ Running("gen_close", "sent")
    /\ calls' = Tail(calls)
    /\ IF ret.kind = "raise"
       THEN IF ClosedNormally(ret.val)
            THEN /\ gens' = [gens EXCEPT ![Cur.gen].finished = TRUE]
                 /\ ret' = [kind |-> "return", val |-> None]
            ELSE /\ gens' = gens
                 /\ ret' = ret
       ELSE /\ gens' = gens
            /\ ret' = close_verdict(ret.val)
    /\ UNCHANGED <<frames, vm_frames, cache, f_globals, it_kind, it_pos, ncalls,
                   results>>

\* gen_close_iter up to its call.
gen_close_iter_start ==
    /\ Running("gen_close_iter", "start")
    /\ IF Cur.gen \in GenIds
       THEN Invoke(Act("gen_close", Cur.gen, None, None, None),
                   [Cur EXCEPT !.pc = "closed"])
       ELSE IF ~has_method(it_kind) THEN Return("0")
       ELSE Invoke([Act("native", Cur.gen, None, None, None) EXCEPT !.pc = "close"],
                   [Cur EXCEPT !.pc = "closed"])
    /\ UNCHANGED <<frames, gens, vm_frames, cache, f_globals, it_kind, it_pos,
                   ncalls, results>>

\* gen_close_iter's result from what the close call returned: gen_close's
\* -1, or a close method's None, gives -1; Coroutine.close returns None.
close_iter_result(it, val) ==
    IF IsGenerator(it) THEN (IF val = "-1" THEN "-1" ELSE "0")
    ELSE IF it \in GenIds THEN "-1"
    ELSE (IF val = None THEN "-1" ELSE "0")

\* gen_close_iter after its call.
gen_close_iter_closed ==
    /\ Running("gen_close_iter", "closed")
    /\ IF ret.kind = "raise" THEN Throw(ret.val)
       ELSE Return(close_iter_result(Cur.gen, ret.val))
    /\ UNCHANGED <<frames, gens, vm_frames, cache, f_globals, it_kind, it_pos,
                   ncalls, results>>

---------------------------------------------------------------------------
(* The iterator IT, which is host code: a tuple iterator, or a host         *)
(* generator with the methods throw and close.                              *)

\* The exception instance `raise exctype` raises.
Instance(exctype) == IF IsInst(exctype) THEN exctype ELSE Inst(exctype, None)

\* What a call of IT's method can give: [kind, val, pos], pos the number of
\* items produced afterwards (MaxItems: exhausted).
NativeOutcomes(method, exctype, pos) ==
    CASE method = "next" ->
           IF pos < MaxItems
           THEN {[kind |-> "return", pos |-> pos + 1, val |-> "1"]}
           ELSE {[kind |-> "raise", pos |-> pos,
                  val |-> Inst("StopIteration", None)]}
      [] method = "throw" ->
           {[kind |-> "raise", pos |-> MaxItems, val |-> Instance(exctype)],
            [kind |-> "return", pos |-> pos, val |-> "1"],
            [kind |-> "return", pos |-> pos, val |-> None]}
      [] method = "__enter__" ->
           {[kind |-> "return", pos |-> pos, val |-> None],
            [kind |-> "raise", pos |-> pos, val |-> Inst("RuntimeError", None)]}
      [] method = "__exit__" ->
           {[kind |-> "return", pos |-> pos, val |-> None],
            [kind |-> "return", pos |-> pos, val |-> "True"],
            [kind |-> "raise", pos |-> pos, val |-> Inst("RuntimeError", None)]}
      [] method = "close" ->
           {[kind |-> "return", pos |-> MaxItems, val |-> None],
            [kind |-> "raise", pos |-> MaxItems,
             val |-> Inst("RuntimeError", MsgIgnored)]}

native_call ==
    /\ calls # <<>>
    /\ Cur.fn = "native"
    /\ \E o \in NativeOutcomes(Cur.pc, Cur.exc, it_pos) :
          /\ it_pos' = o.pos
          /\ calls' = Tail(calls)
          /\ ret' = [kind |-> o.kind, val |-> o.val]
    /\ UNCHANGED <<frames, gens, vm_frames, cache, f_globals, it_kind, ncalls,
                   results>>

---------------------------------------------------------------------------
(* The module code, which runs in the frame F0 and calls the generators     *)

\* The generators the module has created.
Created == IF f_globals.sub = "G2" THEN {"G1", "G2"} ELSE {"G1"}

SendValues == {None, "1"}

\* What the functions of FnNames raise: a class, an instance, no exception.
RaiseArgs == {"ValueError", "RuntimeError", Inst("ValueError", "1"), "1"}

ThrowArgs == {"RuntimeError", "GeneratorExit", Inst("GeneratorExit", None)}

Idle == calls = <<>> /\ ret.kind = "none"

\* The module calls method op of generator g; the entry of results keeps
\* what the generator was like at the call.
ModuleCall(op, g, arg, fn, value, exc) ==
    /\ Idle
    /\ ncalls < MaxCalls
    /\ g \in Created
    /\ calls' = <<Act(fn, g, None, value, exc)>>
    /\ ncalls' = ncalls + 1
    /\ results' = Append(results,
                         [arg |-> arg, before |-> gens[g], gen |-> g,
                          kind |-> "none",
                          lasti |-> frames[FrameOf(g)].f_lasti, op |-> op,
                          val |-> None])
    /\ UNCHANGED <<frames, gens, vm_frames, cache, f_globals, it_kind, it_pos,
                   ret>>

\* Generator.send / Generator.__next__
call_send ==
    \E g \in GenIds, v \in SendValues :
        ModuleCall("send", g, v, "gen_send_ex", v, None)

\* Generator.throw
call_throw ==
    \E g \in GenIds, e \in ThrowArgs :
        ModuleCall("throw", g, e, "gen_throw", None, e)

\* Generator.close, which calls gen_close and returns None
call_close ==
    \E g \in GenIds :
        ModuleCall("close", g, None, "gen_close", None, None)

\* The module gets the call's value or catches its exception.
call_done ==
    /\ calls = <<>>
    /\ ret.kind # "none"
    /\ results' = [results EXCEPT
                      ![Len(results)].kind = ret.kind,
                      ![Len(results)].val =
                          IF results[Len(results)].op = "close"
                             /\ ret.kind = "return"
                          THEN None ELSE ret.val]
    /\ ret' = NoRet
    /\ UNCHANGED <<frames, gens, vm_frames, cache, f_globals, it_kind, it_pos,
                   calls, ncalls>>

---------------------------------------------------------------------------
(* The specification *)

\* The module has made its generators: G1 from any of the generator
\* functions; when G1 is `outer`, sub is a tuple iterator, a host generator,
\* or the generator G2.
Init ==
    /\ \E code1 \in CodeNames, sub \in {"IT", "G2"}, kind \in {"tuple", "native"},
          code2 \in {"gen", "ignore1", "ignoreNone", "await_it"} :
          /\ code1 \notin {"yield_from", "await_sub"} => sub = "IT" /\ kind = "tuple"
          /\ sub = "IT" => code2 = "gen"
          /\ sub = "G2" => kind = "tuple"
          /\ (code1 = "await_sub") = (code2 = "await_it")
          /\ frames = [f \in FrameIds |->
                          IF f = "F1" THEN NewFrame(code1, ModuleFrame, "G1")
                          ELSE NewFrame(code2, ModuleFrame, "G2")]
          /\ f_globals = [me |-> "G1", sub |-> sub, it |-> "IT"]
          /\ it_kind = kind
    /\ gens = [g \in GenIds |->
                  [finished |-> FALSE, gi_frame |-> FrameOf(g),
                   gi_running |-> FALSE]]
    /\ vm_frames = <<ModuleFrame>>
    /\ cache = [last_exception |-> <<>>, new_exception |-> <<>>,
                return_value |-> None]
    /\ it_pos = 0
    /\ calls = <<>>
    /\ ret = NoRet
    /\ ncalls = 0
    /\ results = <<>>

Next ==
    \/ call_send
    \/ call_throw
    \/ call_close
    \/ call_done
    \/ gen_send_ex_start
    \/ gen_send_ex_resumed
    \/ resume_frame_start
    \/ resume_frame_ran
    \/ run_start
    \/ run_loop
    \/ run_in_op
    \/ run_exit
    \/ gen_throw_start
    \/ gen_throw_closed
    \/ gen_throw_sent_exit
    \/ gen_throw_thrown
    \/ gen_throw_sent
    \/ gen_throw_sent_exc
    \/ gen_close_start
    \/ gen_close_closed
    \/ gen_close_sent
    \/ gen_close_iter_start
    \/ gen_close_iter_closed
    \/ native_call

Spec == Init /\ [][Next]_vars

\* run_code of one function of FnNames: a fresh frame, run once.
InitFn ==
    /\ \E fn \in FnNames, E \in RaiseArgs, H \in {"ValueError", "RuntimeError"},
          o \in AwaitArgs \cup TupleValues :
          /\ fn \in {"await_o", "extended_jump", "extended_const", "unpack",
                    "loop_break_finally", "loop_continue_finally",
                    "loop_except_ret", "loop_except_break",
                    "loop_except_continue"}
                => E = "ValueError" /\ H = "ValueError"
          /\ fn \in {"nested_raise", "loop_raise"} => H = "ValueError"
          /\ fn = "await_o" => o \in AwaitArgs
          /\ fn = "unpack" => o \in TupleValues
          /\ fn \notin {"await_o", "unpack"} => o = "CORO"
          /\ frames = [f \in FrameIds |-> NewFrame(fn, None, None)]
          /\ f_globals = [E |-> E, H |-> H, cm |-> "CM", o |-> o]
    /\ it_kind = "tuple"
    /\ gens = [g \in GenIds |->
                  [finished |-> FALSE, gi_frame |-> FrameOf(g),
                   gi_running |-> FALSE]]
    /\ vm_frames = <<>>
    /\ cache = [last_exception |-> <<>>, new_exception |-> <<>>,
                return_value |-> None]
    /\ it_pos = 0
    /\ calls = <<Act("run", None, "F1", None, None)>>
    /\ ret = NoRet
    /\ ncalls = 0
    /\ results = <<>>

NextFn ==
    \/ run_start
    \/ run_loop
    \/ run_in_op
    \/ run_extended_arg
    \/ run_exit
    \/ native_call

SpecFn == InitFn /\ [][NextFn]_vars

---------------------------------------------------------------------------
(* sys.settrace(cb) and run_code under it.  What the callback cb does is a  *)
(* global of the module: on 'call' it may set frame.f_trace to itself and   *)
(* frame.f_trace_opcodes to True; at the event `runs` it runs the function  *)
(* once more through run_code (frame F2); at the event `on` it returns None *)
(* or raises (`does`); otherwise it returns itself.  results keeps the      *)
(* calls of cb.                                                             *)

Events == {"call", "line", "opcode", "exception", "return"}

TraceFns == {"extended_const", "finally_exc", "bare_raise"}

\* What cb does to the frame on 'call'.
callback_sets(f, what, callback, does) ==
    IF what = "call"
    THEN [f EXCEPT !.f_trace = IF does.f_trace THEN callback ELSE @,
                   !.f_trace_opcodes = IF does.f_trace_opcodes THEN TRUE ELSE @]
    ELSE f

\* sys._trace_trampoline(cb, frame, what, arg) up to and into
\* callback(frame, what, arg).
trampoline_calls(fid, what, callback, does) ==
    IF callback = None
    THEN /\ Return("0")
         /\ UNCHANGED <<frames, ncalls>>
    ELSE /\ frames' = [frames EXCEPT
                          ![fid] = callback_sets(@, what, callback, does)]
         /\ IF does.runs = what /\ ncalls = 0 /\ fid # "F2"
            THEN /\ Invoke(Act("run", None, "F2", None, None),
                           [Cur EXCEPT !.pc = "callback"])
                 /\ ncalls' = ncalls + 1
            ELSE /\ Goto([Cur EXCEPT !.pc = "callback"])
                 /\ ncalls' = ncalls

trace_trampoline_start ==
    /\ Running("_trace_trampoline", "start")
    /\ trampoline_calls(Cur.frame, Cur.op,
                        IF Cur.op = "call" THEN Cur.val
                        ELSE frames[Cur.frame].f_trace,
                        f_globals.cb)
    /\ UNCHANGED <<gens, vm_frames, cache, f_globals, it_kind, it_pos, results>>

\* The end of the callback and of _trace_trampoline: result is None, the
\* callback itself ("cb") or "raise".
trampoline_ends(fid, what, result) ==
    /\ results' = Append(results,
                         [frame |-> fid, what |-> what, result |-> result])
    /\ IF result = "raise"
       THEN /\ Throw(IF ret.kind = "raise" THEN ret.val
                     ELSE Inst("RuntimeError", None))
            /\ UNCHANGED <<frames, cache>>
       ELSE IF result = None
       THEN /\ cache' = settrace(cache, None, None)
            /\ frames' = [frames EXCEPT ![fid].f_trace = None]
            /\ Return("-1")
       ELSE /\ Return("0")
            /\ UNCHANGED <<frames, cache>>

trace_trampoline_end ==
    /\ Running("_trace_trampoline", "callback")
    /\ trampoline_ends(Cur.frame, Cur.op,
                       IF ret.kind = "raise" THEN "raise"
                       ELSE IF f_globals.cb.on = Cur.op THEN f_globals.cb.does
                       ELSE "cb")
    /\ UNCHANGED <<gens, vm_frames, f_globals, it_kind, it_pos, ncalls>>

\* The module's second run_code, after the first has returned or the module
\* has caught its exception.
run_code_next ==
    /\ calls = <<>> /\ ret.kind # "none" /\ ncalls = 0
    /\ calls' = <<Act("run", None, "F2", None, None)>>
    /\ ret' = NoRet
    /\ ncalls' = ncalls + 1
    /\ UNCHANGED <<frames, gens, vm_frames, cache, f_globals, it_kind, it_pos,
                   results>>

InitTrace ==
    /\ \E fn \in TraceFns, f_tr \in BOOLEAN, opc \in BOOLEAN,
          runs \in Events \cup {None}, on \in Events \cup {None},
          does \in {"raise", None} :
          /\ on = None => does = None
          /\ frames = [f \in FrameIds |-> NewFrame(fn, None, None)]
          /\ f_globals = [E |-> "ValueError", H |-> "ValueError", cm |-> "CM",
                          o |-> "CORO",
                          cb |-> [f_trace |-> f_tr, f_trace_opcodes |-> opc,
                                  runs |-> runs, on |-> on, does |-> does]]
    /\ it_kind = "tuple"
    /\ gens = [g \in GenIds |->
                  [finished |-> FALSE, gi_frame |-> FrameOf(g),
                   gi_running |-> FALSE]]
    /\ vm_frames = <<>>
    /\ cache = settrace([last_exception |-> <<>>, new_exception |-> <<>>,
                         return_value |-> None], "_trace_trampoline", "cb")
    /\ it_pos = 0
    /\ calls = <<Act("run", None, "F1", None, None)>>
    /\ ret = NoRet
    /\ ncalls = 0
    /\ results = <<>>

NextTrace ==
    \/ run_start
    \/ run_loop
    \/ run_extended_arg
    \/ run_exit
    \/ run_traced
    \/ trace_trampoline_start
    \/ trace_trampoline_end
    \/ run_code_next

SpecTrace == InitTrace /\ [][NextTrace]_vars

---------------------------------------------------------------------------
(* The awaitables of an async generator: AsyncGenASend *)

\* The AsyncGenASend objects the module has made: agen.__anext__() and
\* agen.asend(1).
SendIds == {"S1", "S2"}

\* async_gen_unwrap_value without its unwrapping of AsyncGenWrappedValue.
async_gen_unwrap_value_keeps_wrapper(result, exc) ==
    IF result = None
    THEN [closes |-> exc # None /\ TypeOf(exc) \in {"StopAsyncIteration",
                                                     "GeneratorExit"},
          kind |-> "raise", val |-> Inst("StopAsyncIteration", None)]
    ELSE [closes |-> FALSE, kind |-> "return", val |-> result]

\* async_gen_unwrap_value(gen, result, exc): what it returns or raises, and
\* whether it sets gen.ag_closed.
async_gen_unwrap_value(result, exc) ==
    IF result = None
    THEN [closes |-> exc # None /\ TypeOf(exc) \in {"StopAsyncIteration",
                                                     "GeneratorExit"},
          kind |-> "raise", val |-> Inst("StopAsyncIteration", None)]
    ELSE IF IsWrapped(result)
    THEN [closes |-> FALSE, kind |-> "raise",
          val |-> Inst("StopIteration", agw_val(result))]
    ELSE [closes |-> FALSE, kind |-> "return", val |-> result]

\* The module calls method op of the awaitable a.
AwaitableCall(op, a, v) ==
    /\ Idle
    /\ ncalls < MaxCalls
    /\ calls' = <<Act("AsyncGenASend." \o op, a, None, v, None)>>
    /\ ncalls' = ncalls + 1
    /\ results' = Append(results,
                         [arg |-> v, before |-> gens[a], gen |-> a,
                          kind |-> "none",
                          lasti |-> frames[FrameOf(gens[a].ags_gen)].f_lasti,
                          op |-> op, val |-> None])
    /\ UNCHANGED <<frames, gens, vm_frames, cache, f_globals, it_kind, it_pos,
                   ret>>

call_asend_send == \E a \in SendIds, v \in SendValues : AwaitableCall("send", a, v)

call_asend_close == \E a \in SendIds : AwaitableCall("close", a, None)

\* AsyncGenASend.send up to gen_send_ex(gen, value).
AsyncGenASend_send_start ==
    /\ Running("AsyncGenASend.send", "start")
    /\ LET a == Cur.gen
           value == IF gens[a].ags_state = "INIT" /\ Cur.value = None
                    THEN gens[a].ags_sendval ELSE Cur.value
       IN  IF gens[a].ags_state = "CLOSED"
           THEN Throw(Inst("StopIteration", None)) /\ UNCHANGED gens
           ELSE /\ gens' = [gens EXCEPT ![a].ags_state = "ITER"]
                /\ Invoke(Act("gen_send_ex", gens[a].ags_gen, None, value, None),
                          [Cur EXCEPT !.pc = "sent"])
    /\ UNCHANGED <<frames, vm_frames, cache, f_globals, it_kind, it_pos, ncalls,
                   results>>

\* AsyncGenASend.send from the result or the exception of gen_send_ex on.
AsyncGenASend_send_sent ==
    /\ Running("AsyncGenASend.send", "sent")
    /\ LET a == Cur.gen
           g == gens[a].ags_gen
           result == IF ret.kind = "return" THEN ret.val ELSE None
           exc == IF ret.kind = "raise" THEN ret.val ELSE None
           u == async_gen_unwrap_value(result, exc)
       IN  /\ gens' = [gens EXCEPT
                          ![a].ags_state = IF result = None THEN "CLOSED" ELSE @,
                          ![g].ag_closed = @ \/ u.closes]
           /\ calls' = Tail(calls)
           /\ ret' = [kind |-> u.kind, val |-> u.val]
    /\ UNCHANGED <<frames, vm_frames, cache, f_globals, it_kind, it_pos, ncalls,
                   results>>

AsyncGenASend_close ==
    /\ Running("AsyncGenASend.close", "start")
    /\ gens' = [gens EXCEPT ![Cur.gen].ags_state = "CLOSED"]
    /\ Return(None)
    /\ UNCHANGED <<frames, vm_frames, cache, f_globals, it_kind, it_pos, ncalls,
                   results>>

\* One of the async generator functions called once, and two awaitables made
\* from the async generator.
InitAsync ==
    /\ \E code \in {"agen", "agen_raise"} :
           frames = [f \in FrameIds |-> NewFrame(code, ModuleFrame, FrameGen(f))]
    /\ f_globals = [me |-> "G1", sub |-> "IT"]
    /\ it_kind \in {"tuple", "native"}
    /\ gens = [o \in GenIds \cup SendIds |->
                  IF o \in GenIds
                  THEN [ag_closed |-> FALSE, finished |-> FALSE,
                        gi_frame |-> FrameOf(o), gi_running |-> FALSE]
                  ELSE [ags_gen |-> "G1",
                        ags_sendval |-> IF o = "S1" THEN None ELSE "1",
                        ags_state |-> "INIT"]]
    /\ vm_frames = <<ModuleFrame>>
    /\ cache = [last_exception |-> <<>>, new_exception |-> <<>>,
                return_value |-> None]
    /\ it_pos = 0
    /\ calls = <<>>
    /\ ret = NoRet
    /\ ncalls = 0
    /\ results = <<>>

NextAsync ==
    \/ call_asend_send
    \/ call_asend_close
    \/ call_done
    \/ AsyncGenASend_send_start
    \/ AsyncGenASend_send_sent
    \/ AsyncGenASend_close
    \/ gen_send_ex_start
    \/ gen_send_ex_resumed
    \/ resume_frame_start
    \/ resume_frame_ran
    \/ run_start
    \/ run_loop
    \/ run_in_op
    \/ run_exit
    \/ native_call

SpecAsync == InitAsync /\ [][NextAsync]_vars

---------------------------------------------------------------------------
(* Function.__call__: the binding of arguments to parameters.  The module  *)
(* holds a function fn and the positional arguments of one call in its     *)
(* globals; results gets the f_locals the frame is made with, or the       *)
(* TypeError.                                                              *)

MaxArgc == 3

\* s[lo:hi] of Python, lo and hi possibly negative or beyond the end.
PySlice(s, lo, hi) ==
    LET norm(i) == IF i < 0 THEN (IF i + Len(s) < 0 THEN 0 ELSE i + Len(s))
                   ELSE IF i > Len(s) THEN Len(s) ELSE i
    IN  SubSeq(s, norm(lo) + 1, norm(hi))

\* The first n of the names p0 p1 ..., and of the values x0 x1 ...
Numbered(x, n) == [i \in 1..n |-> x \o ToString(i - 1)]

\* code.co_varnames of a function: positional parameters, keyword-only
\* parameters, the *args name, the **kwargs name.
co_varnames(fn) ==
    Numbered("p", fn.co_argcount) \o Numbered("k", fn.co_kwonlyargcount)
        \o (IF fn.varargs THEN <<"args">> ELSE <<>>)
        \o (IF fn.varkws THEN <<"kwargs">> ELSE <<>>)

\* dict(zip(names, values))
ZipDict(names, values) ==
    LET n == IF Len(names) < Len(values) THEN Len(names) ELSE Len(values)
    IN  [x \in {names[i] : i \in 1..n} |->
            values[CHOOSE i \in 1..n : names[i] = x]]

\* d.update(e)
update(d, e) ==
    [x \in DOMAIN d \cup DOMAIN e |-> IF x \in DOMAIN e THEN e[x] ELSE d[x]]

\* Function.__call__(*args) without keyword arguments, up to the making of
\* the frame: [kind, val, f_locals].
Function_call(fn, args) ==
    LET argc == fn.co_argcount
        kwargc == fn.co_kwonlyargcount
        varargs == IF fn.varargs THEN 1 ELSE 0
        varkws == IF fn.varkws THEN 1 ELSE 0
        params == PySlice(co_varnames(fn), 0, argc + kwargc + varargs + varkws)
        defaults == fn.defaults
        nrequired == IF defaults # <<>> THEN 0 - (Len(defaults) + varkws) ELSE argc
        l1 == ZipDict(PySlice(params, nrequired, Len(params)), defaults)
        l2 == update(l1, fn.kwdefaults)
        l3 == update(l2, ZipDict(params, args))
        l4 == IF fn.varargs
              THEN update(l3, ZipDict(<<params[argc + 1]>>,
                                      <<Tuple(PySlice(args, argc, Len(args)))>>))
              ELSE l3
        f_locals == IF fn.varkws
                    THEN update(l4, ZipDict(<<params[Len(params)]>>, <<"{}">>))
                    ELSE l4
        required == PySlice(params, 0, nrequired)
        missing == {i \in DOMAIN required : required[i] \notin DOMAIN f_locals}
    IN  IF ~fn.varargs /\ argc < Len(args)
        THEN [kind |-> "raise", val |-> "TypeError(takes)", f_locals |-> <<>>]
        ELSE IF missing # {}
        THEN [kind |-> "raise", val |-> "TypeError(missing)", f_locals |-> <<>>]
        ELSE [kind |-> "return", val |-> None, f_locals |-> f_locals]

MaxLnotab == 2

\* _get_lineno(frame): the for loop from entry i on.
RECURSIVE get_lineno_loop(_, _, _, _, _)
get_lineno_loop(lnotab, target, addr, lineno, i) ==
    IF i >= Len(lnotab) \div 2 THEN lineno
    ELSE LET addr1 == addr + lnotab[2 * i + 1]
             line_incr == lnotab[2 * i + 2]
         IN  IF addr1 > target THEN lineno
             ELSE get_lineno_loop(lnotab, target, addr1,
                                  lineno + (IF line_incr >= 128
                                            THEN line_incr - 256 ELSE line_incr),
                                  i + 1)

\* Frame.f_lineno of a frame of code co whose cursor is lasti.
f_lineno(co, lasti) ==
    get_lineno_loop(co.co_lnotab, lasti, 0, 0, 0) + co.co_firstlineno

\* The module asks for the line of the code object co at the cursor lasti,
\* from check_line_number and from a frame's f_lineno.
call_check_line_number ==
    /\ "co" \in DOMAIN f_globals
    /\ results = <<>>
    /\ results' = <<[f_lineno |-> f_lineno(f_globals.co, f_globals.lasti),
                     line |-> check_line_number(f_globals.co, f_globals.lasti).line,
                     lb |-> check_line_number(f_globals.co, f_globals.lasti).lb,
                     ub |-> check_line_number(f_globals.co, f_globals.lasti).ub]>>
    /\ UNCHANGED <<frames, gens, vm_frames, cache, f_globals, it_kind, it_pos,
                   calls, ret, ncalls>>

\* The line tables: up to MaxLnotab pairs of bytes (address increment, line
\* increment).
Lnotabs ==
    UNION {[1..(2 * n) -> {0, 1, 2, 128, 255}] : n \in 0..MaxLnotab}

\* The module calls fn(*args).
call_function ==
    /\ "fn" \in DOMAIN f_globals
    /\ results = <<>>
    /\ results' = <<Function_call(f_globals.fn, f_globals.args)>>
    /\ UNCHANGED <<frames, gens, vm_frames, cache, f_globals, it_kind, it_pos,
                   calls, ret, ncalls>>

\* def fn(p0, .., k0=.., *args, **kwargs) with its defaults, and one call
\* with n positional arguments; or a code object's line table and a cursor.
InitCall ==
    /\ \/ \E argc \in 0..MaxArgc, kwargc \in 0..1, varargs \in BOOLEAN,
             varkws \in BOOLEAN, k \in 0..MaxArgc, kwd \in BOOLEAN,
             n \in 0..(MaxArgc + 1) :
             /\ k <= argc
             /\ kwd => kwargc = 1
             /\ f_globals =
                    [fn |-> [co_argcount |-> argc, co_kwonlyargcount |-> kwargc,
                             varargs |-> varargs, varkws |-> varkws,
                             defaults |-> Numbered("d", k),
                             kwdefaults |-> IF kwd
                                            THEN ZipDict(<<"k0">>, <<"kd0">>)
                                            ELSE <<>>],
                     args |-> Numbered("a", n)]
       \/ \E lnotab \in Lnotabs, first \in {1, 300},
             lasti \in {0, 2, 4, 6} :
             f_globals = [co |-> [co_firstlineno |-> first, co_lnotab |-> lnotab],
                          lasti |-> lasti]
    /\ frames = <<>>
    /\ gens = <<>>
    /\ vm_frames = <<>>
    /\ cache = [last_exception |-> <<>>, new_exception |-> <<>>,
                return_value |-> None]
    /\ it_kind = "tuple"
    /\ it_pos = 0
    /\ calls = <<>>
    /\ ret = NoRet
    /\ ncalls = 0
    /\ results = <<>>

NextCall ==
    \/ call_function
    \/ call_check_line_number

SpecCall == InitCall /\ [][NextCall]_vars

---------------------------------------------------------------------------
(* Claims *)

\* A send begins on generator g.
SendBegins(g) == Running("gen_send_ex", "start") /\ Cur.gen = g

\* The running activation raises exception instance e at once: it calls
\* nothing, and leaves the frames, the generators and the VM frame chain alone.
RaisesAtOnce(e) ==
    /\ calls' = Tail(calls)
    /\ ret' = [kind |-> "raise", val |-> e]
    /\ frames' = frames
    /\ gens' = gens
    /\ vm_frames' = vm_frames

Last(seq) == seq[Len(seq)]

\* A close() call on generator g has returned to the module.
CloseCompleted(g) ==
    \E i \in 1..Len(results) :
        results[i].op = "close" /\ results[i].gen = g /\ results[i].kind = "return"

\* C1: once a generator is finished, its frame having executed RETURN_VALUE
\* or a close() on it having completed, it stays finished and every send on
\* it raises StopIteration at once, without running its frame.
C1_FinishedIsFinal ==
    [][\A g \in GenIds :
          /\ gens[g].finished => gens'[g].finished
          /\ SendBegins(g) /\ (gens[g].finished \/ CloseCompleted(g))
                => RaisesAtOnce(Inst("StopIteration", None))]_vars

\* The part of C1 that holds of every run: _finished is never reset, and a
\* send on a generator whose _finished is set raises StopIteration at once.
FinishedFlagIsFinal ==
    [][\A g \in GenIds :
          /\ gens[g].finished => gens'[g].finished
          /\ SendBegins(g) /\ gens[g].finished
                => RaisesAtOnce(Inst("StopIteration", None))]_vars

\* C2 (amended): send(v), v not None, on a generator at cursor 0 that is
\* neither finished nor running raises TypeError at once.
C2_JustStartedTypeError ==
    [][\A g \in GenIds :
          SendBegins(g) /\ Cur.value # None /\ frames[FrameOf(g)].f_lasti = 0
          /\ ~gens[g].finished /\ ~gens[g].gi_running
                => RaisesAtOnce(Inst("TypeError", MsgJustStarted))]_vars

\* C2 witness: the module's first call, send("1"), raised the TypeError.
C2_Witness ==
    /\ Idle
    /\ Len(results) = 1
    /\ results[1].op = "send" /\ results[1].arg = "1"
    /\ results[1].kind = "raise"
    /\ results[1].val = Inst("TypeError", MsgJustStarted)
    /\ frames[FrameOf(results[1].gen)].stack = <<>>

\* C2 as claimed: send(v), v not None, on any generator at cursor 0 raises
\* TypeError at once.
C2_Original ==
    [][\A g \in GenIds :
          SendBegins(g) /\ Cur.value # None /\ frames[FrameOf(g)].f_lasti = 0
                => RaisesAtOnce(Inst("TypeError", MsgJustStarted))]_vars

\* C3: when the generator answers close()'s GeneratorExit with a yielded
\* value, gen_close raises RuntimeError; it returns only when the resumed
\* frame ended with StopIteration or GeneratorExit.
C3_CloseIgnored ==
    [][Running("gen_close", "sent")
          => /\ ret.kind = "return" /\ Cur.exc = "GeneratorExit"
                  => ret' = [kind |-> "raise",
                             val |-> Inst("RuntimeError", MsgIgnored)]
             /\ ret'.kind = "return"
                  => ret.kind = "raise" /\ ClosedNormally(ret.val)]_vars

\* All calls so far are next() on G1, a generator of `gen`.
OnlyNext ==
    /\ frames["F1"].f_code = "gen"
    /\ \A i \in 1..Len(results) :
          results[i].op = "send" /\ results[i].gen = "G1" /\ results[i].arg = None

\* C4: successive next() calls on gen() return its yielded constants in
\* order, and the call after the last raises StopIteration(r), r the
\* constant it returns.
C4_YieldsThenReturn ==
    OnlyNext =>
        \A i \in 1..Len(results) :
            results[i].kind # "none" /\ i <= 3 =>
                IF i <= 2
                THEN results[i].kind = "return"
                     /\ results[i].val = CodeGen.co_consts[i]
                ELSE results[i].kind = "raise"
                     /\ results[i].val = Inst("StopIteration", CodeGen.co_consts[3])

\* C4 witness: the third next() has raised StopIteration.
C4_Witness ==
    OnlyNext /\ Idle /\ Len(results) = 3 /\ results[3].kind = "raise"

\* C5: once no call on a generator is in progress it is not running.
C5_NotRunningWhenIdle == Idle => \A g \in GenIds : ~gens[g].gi_running

\* C6: send on a running generator raises 'generator already executing' at
\* once.
C6_AlreadyExecuting ==
    [][\A g \in GenIds :
          SendBegins(g) /\ gens[g].gi_running
                => RaisesAtOnce(Inst("ValueError", MsgRunning))]_vars

\* C6 witness: the send G1's own frame made in CALL_FUNCTION has raised it.
C6_Witness ==
    /\ Running("run", "in_op")
    /\ Cur.frame = "F1" /\ Cur.op = "CALL_FUNCTION"
    /\ gens["G1"].gi_running
    /\ ret = [kind |-> "raise", val |-> Inst("ValueError", MsgRunning)]

\* C7: when throw() on a suspended generator has raised, the generator's
\* next send raises StopIteration.
C7_ThrowFinishes ==
    Idle /\ results # <<>> =>
        LET r == Last(results)
        IN  r.op = "throw" /\ r.kind = "raise" /\ r.lasti > 0
            /\ ~r.before.finished /\ ~r.before.gi_running
                => send_guard(r.gen, None, gens, frames)
                       = Inst("StopIteration", None)

IsGeneratorExit(e) ==
    e = "GeneratorExit" \/ (IsInst(e) /\ TypeOf(e) = "GeneratorExit")

\* C8: throw on a generator suspended at YIELD_FROM first closes the
\* sub-iterator when the exception is GeneratorExit, class or instance, and
\* for another exception calls the throw the sub-iterator has.
C8_ThrowClosesSubIterator ==
    [][Running("gen_throw", "start")
       /\ gen_yf(frames[FrameOf(Cur.gen)]) # None
          => IF IsGeneratorExit(Cur.exc)
             THEN calls' # <<>> /\ Head(calls').fn = "gen_close_iter"
             ELSE gen_yf(frames[FrameOf(Cur.gen)]) \in GenIds \/ has_method(it_kind)
                     => calls' # <<>> /\ Head(calls').fn \in {"gen_throw", "native"}]_vars

\* C9: after the sub-iterator's close has returned, close() resumes the
\* generator's frame with GeneratorExit injected.
C9_CloseInjects ==
    [][Running("gen_close", "closed") /\ ret.kind = "return"
          => /\ calls' # <<>>
             /\ Head(calls').fn = "gen_send_ex"
             /\ Head(calls').exc = "GeneratorExit"]_vars

\* C10: when send() completes, by a value or by an exception, the frame's
\* f_back is None.
C10_Unlinked ==
    [][Running("gen_send_ex", "resumed")
          => frames'[FrameOf(Cur.gen)].f_back = None]_vars

\* C11: when a call made by a handler is back in the calling frame's run,
\* return_value and last_exception are what they were when the call was made.
C11_ScratchRestored ==
    Running("run", "in_op") /\ ret.kind # "none" => Scratch(cache) = Cur.saved

---------------------------------------------------------------------------
(* Claims about the functions of FnNames, under SpecFn *)

\* run's loop is about to parse and dispatch the instruction name with the
\* argument arg in the frame F1.
AtInstr(name, arg) ==
    /\ Running("run", "loop")
    /\ Cur.exc = None
    /\ can_parse(frames["F1"])
    /\ parse_byte_and_args(frames["F1"]).name = name
    /\ parse_byte_and_args(frames["F1"]).arg = arg

\* The frame F1 is inside an except handler.
Handling ==
    \E i \in DOMAIN frames["F1"].block_stack :
        frames["F1"].block_stack[i].type = "except-handler"

\* The exception instance `raise x` raises, for a class or an instance x.
Raised(x) == IF IsClass(x) THEN Inst(x, None) ELSE x

\* C12: RAISE_VARARGS with argc 0 inside the except handler that caught the
\* exception raised from E leaves last_exception the triple of that exception
\* and the frame unwinding with why 'exception'.
C12_BareRaiseReraises ==
    [][AtInstr("RAISE_VARARGS", 0) /\ Handling
       /\ (IsClass(f_globals.E) \/ IsInst(f_globals.E))
       => /\ cache'.last_exception =
               <<TypeOf(Raised(f_globals.E)), Raised(f_globals.E), None>>
          /\ Head(calls').why = "exception"]_vars

\* The function "reraise" has ended and run raised the exception of E again.
C12_Witness ==
    /\ calls = <<>>
    /\ frames["F1"].f_code = "reraise"
    /\ frames["F1"].f_lasti = 26
    /\ ret = [kind |-> "raise", val |-> Raised(f_globals.E)]

\* The function named code has ended with the instruction before offset
\* lasti, and run raised an exception.
RaisedAt(code, lasti) ==
    /\ calls = <<>>
    /\ ret.kind = "raise"
    /\ frames["F1"].f_code = code
    /\ frames["F1"].f_lasti = lasti

\* C13: RAISE_VARARGS with argc 0 when no exception is being handled (no
\* handler was entered, or the handler entered has completed with POP_EXCEPT)
\* makes run raise a RuntimeError.
C13_NoExceptionRuntimeError ==
    RaisedAt("bare_raise", 2) \/ RaisedAt("handled_then_raise", 32)
        => TypeOf(ret.val) = "RuntimeError"

\* The function named code has ended.
Ended(code) == calls = <<>> /\ frames["F1"].f_code = code

\* C14: a function whose finally handler executes RETURN_VALUE, entered with
\* a pending exception or a pending return, returns the finally's value.
C14_FinallyReturnWins ==
    Ended("finally_exc") \/ Ended("finally_ret")
        => ret = [kind |-> "return", val |-> "2"]

\* try: raise E / finally: return 2 has returned, E an exception class.
C14_Witness ==
    Ended("finally_exc") /\ IsClass(f_globals.E) /\ ret.kind = "return"

\* C15: the VirtualMachineError that the confused END_FINALLY of "vm_error"
\* raises, inside two setup-except blocks, is what run raises.
C15_VirtualMachineErrorEscapes ==
    Ended("vm_error")
        => ret = [kind |-> "raise", val |-> Inst("VirtualMachineError", None)]

\* C16: every block on a frame's block stack has a level that is at most
\* the depth of the frame's value stack.
C16_BlockLevels ==
    \A f \in FrameIds : \A i \in DOMAIN frames[f].block_stack :
        frames[f].block_stack[i].level <= Len(frames[f].stack)

\* WITH_CLEANUP_START has lowered the level of the except-handler block and
\* waits for exit_func(u, v, w).
C16_Witness ==
    /\ Running("native", "__exit__")
    /\ IsClass(top(frames["F1"]))
    /\ Handling

\* The cell objects, and whether x and y are one object.
IsCell(x) == \E v \in {None, "1", "2"}, n \in 0..MaxCells : x = make_cell(v, n)

SameCell(x, y) ==
    \E v, w \in {None, "1", "2"}, n \in 0..MaxCells :
        x = make_cell(v, n) /\ y = make_cell(w, n)

\* C17: STORE_DEREF of x leaves the frame's cell for x the same cell, and
\* every cell of x captured on the stack by LOAD_CLOSURE holds the stored value.
C17_CellNotRebound ==
    [][AtInstr("STORE_DEREF", "x")
       => /\ SameCell(frames'["F1"].cells.x, frames["F1"].cells.x)
          /\ \A i \in DOMAIN frames'["F1"].stack :
                 IsCell(frames'["F1"].stack[i])
                 => cell_contents(frames'["F1"].stack[i]) = top(frames["F1"])]_vars

---------------------------------------------------------------------------
(* Claims about the awaitables of an async generator, under SpecAsync *)

\* C18: AsyncGenASend.send on an awaitable that is not closed calls
\* gen_send_ex on its generator once, and from what that gave it raises
\* StopIteration(w.agw_val) for a wrapped value w, raises StopAsyncIteration
\* for None (no value: the generator raised or gave None), and returns any
\* other value as it is.
C18_SendMapsResult ==
    [][/\ Running("AsyncGenASend.send", "start")
          /\ gens[Cur.gen].ags_state # "CLOSED"
          => /\ Len(calls') = Len(calls) + 1
             /\ Head(calls').fn = "gen_send_ex"
             /\ Head(calls').gen = gens[Cur.gen].ags_gen
       /\ Running("AsyncGenASend.send", "sent")
          => /\ calls' = Tail(calls)
             /\ ret.kind = "return" /\ IsWrapped(ret.val)
                => ret' = [kind |-> "raise",
                           val |-> Inst("StopIteration", agw_val(ret.val))]
             /\ ret.kind = "raise" \/ ret.val = None
                => ret' = [kind |-> "raise",
                           val |-> Inst("StopAsyncIteration", None)]
             /\ ret.kind = "return" /\ ~IsWrapped(ret.val) /\ ret.val # None
                => ret' = ret]_vars

\* Three sends through S1 gave the wrapped 1 as StopIteration(1), the item
\* of sub as it is, and StopAsyncIteration at the end of the generator.
C18_Witness ==
    /\ Idle
    /\ Len(results) = 3
    /\ \A i \in 1..3 : results[i].gen = "S1" /\ results[i].op = "send"
    /\ results[1].kind = "raise" /\ results[1].val = Inst("StopIteration", "1")
    /\ results[2].kind = "return" /\ results[2].val = "1"
    /\ results[3].kind = "raise"
    /\ results[3].val = Inst("StopAsyncIteration", None)

\* C19: an awaitable's state only moves init -> iter -> closed; it is closed
\* once send has delivered StopIteration(value) or StopAsyncIteration, or
\* close() was called; send on a closed awaitable raises StopIteration(None)
\* and makes no call.
C19_OneShot ==
    [][/\ \A a \in SendIds :
             \/ gens'[a].ags_state = gens[a].ags_state
             \/ gens[a].ags_state = "INIT" /\ gens'[a].ags_state = "ITER"
             \/ gens[a].ags_state # "CLOSED" /\ gens'[a].ags_state = "CLOSED"
       /\ Running("AsyncGenASend.send", "sent") /\ ret'.kind = "raise"
          /\ TypeOf(ret'.val) \in {"StopIteration", "StopAsyncIteration"}
          => gens'[Cur.gen].ags_state = "CLOSED"
       /\ Running("AsyncGenASend.close", "start")
          => gens'[Cur.gen].ags_state = "CLOSED"
       /\ Running("AsyncGenASend.send", "start")
          /\ gens[Cur.gen].ags_state = "CLOSED"
          => /\ calls' = Tail(calls)
             /\ ret' = [kind |-> "raise", val |-> Inst("StopIteration", None)]]_vars

---------------------------------------------------------------------------
(* Claim about awaitable coercion, under SpecFn *)

\* C20: for an object o whose __await__() returns a Coroutine of the machine
\* or a generator with the coroutine flag, `await o` raises
\* TypeError('__await__() returned a coroutine'); for an o without __await__
\* it raises a TypeError.
C20_AwaitReturnedCoroutine ==
    Ended("await_o")
        => /\ f_globals.o \in {"AW_CORO", "AW_GENCORO"}
              => ret = [kind |-> "raise",
                        val |-> Inst("TypeError", MsgReturnedCoroutine)]
           /\ f_globals.o = "1"
              => ret.kind = "raise" /\ TypeOf(ret.val) = "TypeError"

---------------------------------------------------------------------------
(* Claim about awaiting a coroutine twice, under Spec *)

\* The frame's cursor is at a YIELD_FROM instruction.
AtYieldFrom(f) ==
    /\ f.f_lasti < Len(Code(f.f_code).co_code)
    /\ Code(f.f_code).co_code[f.f_lasti + 1] = opmap.YIELD_FROM

\* C21: GET_AWAITABLE applied to a coroutine that is being awaited (it has
\* not finished and its frame is suspended at YIELD_FROM) raises
\* RuntimeError('coroutine is being awaited already') and does not push the
\* coroutine; a coroutine that is not being awaited is left on the stack and
\* nothing is raised.
C21_AwaitedCoroutineRefused ==
    [][AtInstr("GET_AWAITABLE", None) /\ Cur.frame = "F1"
       /\ frames["F1"].f_code = "await_sub"
       => IF ~gens["G2"].finished /\ AtYieldFrom(frames["F2"])
          THEN /\ cache'.last_exception[2] = Inst("RuntimeError", MsgAwaited)
               /\ frames'["F1"].stack = pop(frames["F1"], 0).stack
               /\ Cur'.why = "exception"
          ELSE /\ frames'["F1"].stack = frames["F1"].stack
               /\ top(frames["F1"]) = "G2"
               /\ cache'.last_exception = cache.last_exception]_vars

---------------------------------------------------------------------------
(* Claim about argument binding, under SpecCall *)

\* C22: a function with argc positional parameters of which the last k have
\* defaults, called with n positional arguments and no keywords: when
\* argc - k <= n <= argc the call binds parameter i < n to argument i and
\* parameter i >= n to defaults[i - (argc - k)]; when n < argc - k it raises
\* TypeError.  This holds whether or not the function has keyword-only
\* parameters, *args or **kwargs.
C22_DefaultsBound ==
    results # <<>> =>
        LET fn == f_globals.fn
            argc == fn.co_argcount
            k == Len(fn.defaults)
            n == Len(f_globals.args)
            r == results[1]
        IN  /\ argc - k <= n /\ n <= argc
               => /\ r.kind = "return"
                  /\ \A i \in 0..(argc - 1) :
                        /\ "p" \o ToString(i) \in DOMAIN r.f_locals
                        /\ r.f_locals["p" \o ToString(i)] =
                               IF i < n THEN "a" \o ToString(i)
                               ELSE "d" \o ToString(i - (argc - k))
            /\ n < argc - k => r.kind = "raise"

---------------------------------------------------------------------------
(* Claim about line numbers, under SpecCall *)

\* The line of a cursor by the line table's rule: the first line plus the
\* increments, those from 0x80 on taken as increment - 0x100, of the entries
\* from i on whose accumulated address is at most the cursor.
RECURSIVE LineAt(_, _, _, _)
LineAt(lnotab, lasti, addr, i) ==
    IF i >= Len(lnotab) \div 2 \/ addr + lnotab[2 * i + 1] > lasti THEN 0
    ELSE (IF lnotab[2 * i + 2] >= 128 THEN lnotab[2 * i + 2] - 256
          ELSE lnotab[2 * i + 2])
         + LineAt(lnotab, lasti, addr + lnotab[2 * i + 1], i + 1)

\* C26: for every line table and cursor, check_line_number and Frame.f_lineno
\* give the same line, that of the last entry whose accumulated address is at
\* most the cursor, with every line increment of 0x80 or more counted as
\* increment - 0x100.
C26_SameLine ==
    results # <<>> /\ "co" \in DOMAIN f_globals =>
        /\ results[1].line = results[1].f_lineno
        /\ results[1].f_lineno =
               f_globals.co.co_firstlineno
                   + LineAt(f_globals.co.co_lnotab, f_globals.lasti, 0, 0)

---------------------------------------------------------------------------
(* Claim about EXTENDED_ARG, under SpecFn *)

\* The value the EXTENDED_ARG prefixes that end just before the cursor lasti
\* stand for: ((a1 * 256) + a2) * 256 + ... over the chain a1 a2 ...
RECURSIVE PrefixValue(_, _)
PrefixValue(co_code, lasti) ==
    IF lasti >= CODE_UNIT /\ co_code[lasti - 1] = opmap.EXTENDED_ARG
    THEN PrefixValue(co_code, lasti - CODE_UNIT) * 256 + co_code[lasti]
    ELSE 0

\* C25: in wordcode, the instruction that follows a chain of EXTENDED_ARG
\* prefixes a1..ak and has the argument byte b is dispatched once, with
\* ((a1 * 256 + a2) * 256 + ...) * 256 + b: a jump moves the cursor there, a
\* LOAD_CONST pushes that constant; the scratch key 'oparg' is gone
\* afterwards.  Before 3.6 one prefix a and the argument b give a * 65536 + b.
C25_ExtendedArg ==
    [][/\ Running("run", "extended_arg")
          /\ parse_byte_and_args(frames["F1"]).name # "EXTENDED_ARG"
          => LET f == frames["F1"]
                 code == Code(f.f_code)
                 arg == PrefixValue(code.co_code, f.f_lasti) * 256
                            + code.co_code[f.f_lasti + 2]
                 name == opname(code.co_code[f.f_lasti + 1])
             IN  /\ "oparg" \notin DOMAIN cache'
                 /\ calls' # <<>> /\ Head(calls').pc # "extended_arg"
                 /\ name = "JUMP_ABSOLUTE"
                    => frames'["F1"] = [f EXCEPT !.f_lasti = arg]
                 /\ name = "LOAD_CONST"
                    => frames'["F1"] =
                           [f EXCEPT !.f_lasti = @ + CODE_UNIT,
                                     !.stack = Append(@, code.co_consts[arg + 1])]
       /\ \A a \in 0..2, b \in {0, 1, 65535} :
             int_arg_py34(b % 256, b \div 256,
                          EXTENDED_ARG_py34(frames["F1"], cache, a).cache.oparg)
                 = a * 65536 + b]_vars

\* The jump behind two prefixes has been made.
C25_Witness ==
    /\ frames["F1"].f_code = "extended_jump"
    /\ frames["F1"].f_lasti = 66051
    /\ "oparg" \notin DOMAIN cache

---------------------------------------------------------------------------
(* Claim about UNPACK_SEQUENCE, under SpecFn *)

\* C27: UNPACK_SEQUENCE(count) pops the sequence; when its length is count it
\* pushes its count items, the first one on top, and raises nothing; when its
\* length differs it raises ValueError and pushes nothing.
C27_UnpackSequence ==
    [][AtInstr("UNPACK_SEQUENCE", 2)
       => LET f == frames["F1"]
              seq == items(top(f))
          IN  IF Len(seq) = 2
              THEN /\ frames'["F1"].stack = pop(f, 0).stack \o <<seq[2], seq[1]>>
                   /\ Cur'.why = None
              ELSE /\ frames'["F1"].stack = pop(f, 0).stack
                   /\ Cur'.why = "exception"
                   /\ cache'.last_exception[1] = "ValueError"]_vars

---------------------------------------------------------------------------
(* Claims about manage_block_stack, under SpecFn *)

\* The frame and cache dispatch leaves when the instruction at the cursor of
\* F1 is run, and the why run passes on to manage_block_stack.
Dispatched ==
    LET p == parse_byte_and_args(frames["F1"])
    IN  dispatch(handler(p.name, p.arg, p.fr, cache, f_globals))

\* run is about to execute an instruction of F1 that makes no call and ends
\* with why, the top block of the frame then being of one of the types.
Unwinds(why, types) ==
    /\ Running("run", "loop")
    /\ Cur.exc = None
    /\ can_parse(frames["F1"])
    /\ Dispatched.call = <<>>
    /\ (IF Dispatched.why = "reraise" THEN "exception" ELSE Dispatched.why) = why
    /\ Dispatched.fr.block_stack # <<>>
    /\ Dispatched.fr.block_stack[Len(Dispatched.fr.block_stack)].type \in types

\* C28: with why = 'exception' and the top block B a setup-except or finally
\* block, the block stack has an except-handler block of level B.level in
\* place of B, the value stack is cut to B.level and gets the previous current
\* exception and then the pending exception, each as (tb, value, type), so
\* its depth is B.level + 6; current_exception is the pending exception,
\* last_exception is cleared, the cursor is B.handler and why is None.  (An
\* exception key that is not set reads as (type(None), None, None).)
C28_ExceptionEntersHandler ==
    [][Unwinds("exception", {"setup-except", "finally"})
       => LET f == Dispatched.fr
              B == f.block_stack[Len(f.block_stack)]
              prev == IF Dispatched.cache.new_exception = <<>>
                      THEN <<"NoneType", None, None>>
                      ELSE Dispatched.cache.new_exception
              pending == IF Dispatched.cache.last_exception = <<>>
                         THEN <<"NoneType", None, None>>
                         ELSE Dispatched.cache.last_exception
          IN  /\ frames'["F1"].block_stack =
                     SubSeq(f.block_stack, 1, Len(f.block_stack) - 1)
                         \o <<[type |-> "except-handler", handler |-> None,
                               level |-> B.level]>>
              /\ frames'["F1"].stack =
                     SubSeq(f.stack, 1, B.level)
                         \o <<prev[3], prev[2], prev[1]>>
                         \o <<pending[3], pending[2], pending[1]>>
              /\ Len(frames'["F1"].stack) = B.level + 6
              /\ cache'.new_exception = pending
              /\ cache'.last_exception = <<>>
              /\ frames'["F1"].f_lasti = B.handler
              /\ Cur'.why = None /\ Cur'.pc = "loop"]_vars

\* The finally clause inside the except clause of "nested_raise" has been
\* entered: the value under the raise was cut off, and the exception being
\* handled lies under the new one.
C28_Witness ==
    /\ Running("run", "loop")
    /\ frames["F1"].f_code = "nested_raise"
    /\ frames["F1"].f_lasti = 28
    /\ Len(frames["F1"].block_stack) = 2
    /\ frames["F1"].block_stack[2] =
           [type |-> "except-handler", handler |-> None, level |-> 3]
    /\ Len(frames["F1"].stack) = 9
    /\ frames["F1"].stack[6] # "NoneType"
    /\ frames["F1"].stack[9] # "NoneType"
    /\ cache.new_exception # <<>>

---------------------------------------------------------------------------
(* Claims about the combinations of block type and why that the unwinding   *)
(* policy does not list, under SpecFn                                       *)

\* The states manage_block_stack is called on while run drains the block
\* stack from s on.
RECURSIVE UnwindStates(_)
UnwindStates(s) ==
    IF s.why # None /\ s.fr.block_stack # <<>>
    THEN <<s>> \o UnwindStates(manage_block_stack(s))
    ELSE <<>>

\* The drain that follows the instruction the frame F1 is at.
Drain ==
    IF /\ Running("run", "loop") /\ Cur.exc = None /\ can_parse(frames["F1"])
       /\ Dispatched.call = <<>>
       /\ Dispatched.why \notin {None, "yield", "extended_arg"}
    THEN UnwindStates([cache |-> Dispatched.cache, fr |-> Dispatched.fr,
                       why |-> IF Dispatched.why = "reraise" THEN "exception"
                               ELSE Dispatched.why])
    ELSE <<>>

TopBlock(s) == s.fr.block_stack[Len(s.fr.block_stack)]

\* The combinations the policy lists.
Listed(btype, reason) ==
    \/ btype = "loop" /\ reason \in {"continue", "break"}
    \/ btype = "except-handler"
    \/ btype \in {"setup-except", "finally"} /\ reason = "exception"
    \/ btype = "finally" /\ reason \in {"return", "continue"}

\* The block is popped, the value stack cut to its level, the cursor, the
\* cache and why left as they were.
Propagates(s) ==
    LET B == TopBlock(s)
    IN  manage_block_stack(s) =
            [s EXCEPT !.fr.block_stack = SubSeq(@, 1, Len(@) - 1),
                      !.fr.stack = SubSeq(@, 1, B.level)]

\* C29 as stated: for every combination of block type and why that the policy
\* does not list, manage_block_stack pops the block, cuts the value stack to
\* B.level and returns why unchanged, without a jump to the block's handler.
C29_UnlistedPropagates ==
    \A i \in 1..Len(Drain) :
        ~Listed(TopBlock(Drain[i]).type, Drain[i].why) => Propagates(Drain[i])

\* C29 amended: the same for every unlisted combination but a finally block
\* with why = 'break'; for that one the block is popped, the value stack cut
\* to B.level, the marker 'break' pushed, the cursor set to B.handler and why
\* is None.
C29_UnlistedButFinally ==
    \A i \in 1..Len(Drain) :
        LET s == Drain[i]
            B == TopBlock(s)
        IN  ~Listed(B.type, s.why)
                => IF B.type = "finally"
                   THEN /\ s.why = "break"
                        /\ manage_block_stack(s) =
                               [s EXCEPT !.fr.block_stack = SubSeq(@, 1, Len(@) - 1),
                                         !.fr.stack = Append(SubSeq(@, 1, B.level),
                                                             "break"),
                                         !.fr.f_lasti = B.handler,
                                         !.why = None]
                   ELSE Propagates(s)

\* `break` inside try/except inside a loop, with a value on the stack, has
\* left the loop: both blocks are gone and the value stack is empty.
C29_Witness ==
    /\ Running("run", "loop")
    /\ frames["F1"].f_code = "loop_except_break"
    /\ frames["F1"].f_lasti = 24
    /\ frames["F1"].block_stack = <<>>
    /\ frames["F1"].stack = <<>>

---------------------------------------------------------------------------
(* Claims about `continue` inside try/finally inside a loop, under SpecFn   *)

\* The frame F1 is at an instruction `name`, about to be dispatched.
AtOp(name) ==
    /\ Running("run", "loop") /\ Cur.exc = None /\ can_parse(frames["F1"])
    /\ parse_byte_and_args(frames["F1"]).name = name

\* C30: CONTINUE_LOOP under a finally block that lies on a loop block enters
\* the finally handler once, with the jump target and then the marker
\* 'continue' on the value stack cut to the finally block's level; END_FINALLY
\* on that marker puts the target back into return_value and signals
\* continue, so that the cursor is the loop's continue target, the loop block
\* is still the top block, the finally block is gone and the value stack is
\* at the finally block's level.
C30_ContinueThroughFinally ==
    [][LET f == frames["F1"]
           n == Len(f.block_stack)
       IN  /\ (/\ AtOp("CONTINUE_LOOP")
               /\ n >= 2
               /\ f.block_stack[n].type = "finally"
               /\ f.block_stack[n - 1].type = "loop")
                  => /\ frames'["F1"].f_lasti = f.block_stack[n].handler
                     /\ frames'["F1"].block_stack = SubSeq(f.block_stack, 1, n - 1)
                     /\ frames'["F1"].stack =
                            SubSeq(f.stack, 1, f.block_stack[n].level)
                                \o <<ToString(parse_byte_and_args(f).arg),
                                     "continue">>
                     /\ Cur'.why = None /\ Cur'.pc = "loop"
           /\ (/\ AtOp("END_FINALLY")
               /\ top(f) = "continue"
               /\ n >= 1
               /\ f.block_stack[n].type = "loop")
                  => /\ cache'.return_value = peek(f, 1)
                     /\ ToString(frames'["F1"].f_lasti) = peek(f, 1)
                     /\ frames'["F1"].block_stack = f.block_stack
                     /\ frames'["F1"].stack = SubSeq(f.stack, 1, Len(f.stack) - 2)
                     /\ Cur'.why = None /\ Cur'.pc = "loop"]_vars

\* "loop_continue_finally" is back at its continue target 4 after the finally
\* clause: return_value holds the target, the loop block alone is on the
\* block stack and the value stack holds the loop's own value.
C30_Witness ==
    /\ Running("run", "loop")
    /\ frames["F1"].f_code = "loop_continue_finally"
    /\ frames["F1"].f_lasti = 4
    /\ cache.return_value = "4"
    /\ frames["F1"].block_stack = <<[type |-> "loop", handler |-> 24, level |-> 0]>>
    /\ frames["F1"].stack = <<"1">>

---------------------------------------------------------------------------
(* Claims about the trace hook, under SpecTrace *)

\* The calls of the trace function that are on the call stack cs.
HookCalls(cs) ==
    Cardinality({i \in DOMAIN cs : cs[i].fn = "_trace_trampoline"})

\* The activation the module started: the bottom of the call stack.
BottomCall == calls[Len(calls)]

\* C23: when the callback returns None for a frame, that frame gets no further
\* event, the trace function set by sys.settrace stays installed, and a frame
\* the module runs afterwards still gets its 'call' event.
C23_StopsThisFrameOnly ==
    \A i \in DOMAIN results :
        results[i].result = None =>
            /\ \A j \in DOMAIN results :
                   j > i => results[j].frame # results[i].frame
            /\ cache_get(cache, "tracefunc", None) = "_trace_trampoline"
            /\ (/\ results[i].frame = "F1"
                /\ calls # <<>>
                /\ BottomCall.fn = "run" /\ BottomCall.frame = "F2"
                /\ BottomCall.pc \notin {"start", "traced_call"})
               => \E j \in DOMAIN results :
                      results[j].frame = "F2" /\ results[j].what = "call"

\* C24: while a call of the trace function is on the call stack and the
\* tracing flag is set, no step of the evaluator calls the trace function,
\* whatever event is due; so at most one call of it is on the call stack,
\* also when the callback runs code through run.
C24_NoReentrantHook ==
    /\ [](HookCalls(calls) <= 1)
    /\ [][HookCalls(calls) >= 1 /\ cache_get(cache, "tracing", FALSE)
             => HookCalls(calls') <= HookCalls(calls)]_vars

\* The callback, called for an event of F1, has run F2 up to its return: the
\* 'return' event of F2 is due while the tracing flag is set.
C24_Witness ==
    /\ Running("run", "exit")
    /\ Cur.frame = "F2" /\ Cur.why = "return"
    /\ HookCalls(calls) = 1
    /\ cache_get(cache, "tracing", FALSE)
    /\ cache_get(cache, "tracefunc", None) = "_trace_trampoline"

\* The frames of the run activations of the call stack cs that have pushed
\* their frame, the outermost run first.
RECURSIVE RunFrames(_)
RunFrames(cs) ==
    IF cs = <<>> THEN <<>>
    ELSE IF Head(cs).fn = "run" /\ Head(cs).pc # "start"
    THEN Append(RunFrames(Tail(cs)), Head(cs).frame)
    ELSE RunFrames(Tail(cs))

\* C36: the VM's frame chain holds exactly the frames of the runs that are
\* under way, so a run that has ended, however it ended, has removed the
\* frame it pushed.
C36_RunPopsItsFrame == vm_frames = RunFrames(calls)

\* The trace function has returned or raised and _call_trace has not gone on
\* yet.
HookEnding ==
    calls # <<>> /\ Cur.fn = "run" /\ Cur.pc \in TracedPcs /\ ret.kind # "none"

\* C37: the tracing flag is set only while a call of the trace function is
\* under way, and after the trace function has raised for F1 a frame the
\* module runs afterwards still gets its 'call' event.
C37_TracingOnlyInHook ==
    /\ cache_get(cache, "tracing", FALSE) => HookCalls(calls) >= 1 \/ HookEnding
    /\ \A i \in DOMAIN results :
           (/\ results[i].result = "raise" /\ results[i].frame = "F1"
            /\ calls # <<>>
            /\ BottomCall.fn = "run" /\ BottomCall.frame = "F2"
            /\ BottomCall.pc \notin {"start", "traced_call"})
           => \E j \in DOMAIN results :
                  results[j].frame = "F2" /\ results[j].what = "call"

---------------------------------------------------------------------------
(* Claim about the end of run's unwinding loop, under SpecFn *)

\* The states manage_block_stack is called on while run drains the block
\* stack from s on, the first n calls at most.
RECURSIVE UnwindCalls(_, _)
UnwindCalls(s, n) ==
    IF n > 0 /\ s.why # None /\ s.fr.block_stack # <<>>
    THEN <<s>> \o UnwindCalls(manage_block_stack(s), n - 1)
    ELSE <<>>

\* The instruction the frame F1 is at leads to run's unwinding loop.
Draining ==
    /\ Running("run", "loop") /\ Cur.exc = None /\ can_parse(frames["F1"])
    /\ Dispatched.call = <<>>
    /\ Dispatched.why \notin {None, "yield", "extended_arg"}

\* The state the unwinding loop then starts from.
DrainStart ==
    [cache |-> Dispatched.cache, fr |-> Dispatched.fr,
     why |-> IF Dispatched.why = "reraise" THEN "exception"
             ELSE Dispatched.why]

\* Each call gives why = None or leaves one block less, and the loop has
\* ended after as many calls as the block stack has blocks.
DrainEnds(s) ==
    LET n == Len(s.fr.block_stack)
        D == UnwindCalls(s, n + 1)
    IN  /\ Len(D) <= n
        /\ \A i \in 1..Len(D) :
               \/ manage_block_stack(D[i]).why = None
               \/ Len(manage_block_stack(D[i]).fr.block_stack)
                      = Len(D[i].fr.block_stack) - 1

\* C31: run's unwinding loop ends: every call of manage_block_stack returns
\* why = None or removes one block, so that at most len(block_stack) calls are
\* made.
C31_UnwindingEnds == Draining => DrainEnds(DrainStart)

\* `return` inside try/except inside a loop: two calls, one for each block,
\* and why is still 'return'.
C31_Witness ==
    /\ AtOp("RETURN_VALUE")
    /\ frames["F1"].f_code = "loop_except_ret"
    /\ Len(frames["F1"].block_stack) = 2
    /\ Len(UnwindCalls(DrainStart, 3)) = 2
    /\ unwind(DrainStart).why = "return"
    /\ unwind(DrainStart).fr.block_stack = <<>>

---------------------------------------------------------------------------
(* Claim about run when an opcode returns 'yield', under Spec *)

\* What dispatch gives for the pass of run's loop that is due: the rest of
\* the handler whose call has ended, or the instruction at the cursor.
PassResult ==
    IF Cur.pc = "in_op"
    THEN dispatch(handler_result(Cur.op, frames[vm_frame(vm_frames)], cache,
                                 Cur.val, ret))
    ELSE dispatch(handler(parse_byte_and_args(frames[vm_frame(vm_frames)]).name,
                          parse_byte_and_args(frames[vm_frame(vm_frames)]).arg,
                          parse_byte_and_args(frames[vm_frame(vm_frames)]).fr,
                          cache, f_globals))

\* The pass that is due ends with why = 'yield'.
Yielding ==
    /\ \/ Running("run", "in_op")
       \/ /\ Running("run", "loop") /\ Cur.exc = None
          /\ can_parse(frames[vm_frame(vm_frames)])
    /\ PassResult.call = <<>>
    /\ PassResult.why = "yield"

\* C32: when an opcode returns 'yield', run leaves the loop with the frame as
\* the opcode left it (value stack, block stack, cursor), and run's exit takes
\* the frame off the VM's frame chain, changes no frame and returns the
\* cache's return_value.
C32_YieldKeepsFrame ==
    [][/\ Yielding
          => /\ frames' = [frames EXCEPT ![vm_frame(vm_frames)] = PassResult.fr]
             /\ cache' = PassResult.cache
             /\ vm_frames' = vm_frames
             /\ Head(calls').pc = "exit" /\ Head(calls').why = "yield"
       /\ Running("run", "exit") /\ Cur.why = "yield"
          => /\ frames' = frames
             /\ vm_frames' = SubSeq(vm_frames, 1, Len(vm_frames) - 1)
             /\ calls' = Tail(calls)
             /\ ret' = [kind |-> "return", val |-> cache.return_value]]_vars

\* A generator run by another generator's frame has yielded inside a block
\* with a value left on its stack, and run is at its exit.
C32_Witness ==
    /\ Running("run", "exit") /\ Cur.why = "yield"
    /\ Len(vm_frames) = 2
    /\ frames[vm_frame(vm_frames)].block_stack # <<>>
    /\ frames[vm_frame(vm_frames)].stack # <<>>

---------------------------------------------------------------------------
(* Claim about YIELD_FROM, under Spec *)

\* The cursor of the frame f is on an instruction `name`.
CursorOn(f, name) == can_parse(f) /\ parse_byte_and_args(f).name = name

\* C33: when the sub-iterator gives a value, YIELD_FROM leaves the
\* sub-iterator on top of the value stack and the cursor on YIELD_FROM
\* itself; a frame resumed by send there has the sent value above the
\* sub-iterator and YIELD_FROM passes it on; when the sub-iterator raises
\* StopIteration(v), the sub-iterator is popped, v pushed and the cursor left
\* past YIELD_FROM.
C33_YieldFromRepeats ==
    [][/\ Running("run", "in_op") /\ Cur.op = "YIELD_FROM" /\ ret.kind = "return"
          => /\ frames'[vm_frame(vm_frames)].stack
                    = frames[vm_frame(vm_frames)].stack
             /\ top(frames'[vm_frame(vm_frames)]) \in Iterators
             /\ frames'[vm_frame(vm_frames)].f_lasti
                    = frames[vm_frame(vm_frames)].f_lasti - CODE_UNIT
             /\ CursorOn(frames'[vm_frame(vm_frames)], "YIELD_FROM")
             /\ cache'.return_value = ret.val
             /\ Head(calls').pc = "exit" /\ Head(calls').why = "yield"
       /\ /\ Running("run", "in_op") /\ Cur.op = "YIELD_FROM"
          /\ ret.kind = "raise" /\ TypeOf(ret.val) = "StopIteration"
          => /\ frames'[vm_frame(vm_frames)].stack
                    = Append(pop(frames[vm_frame(vm_frames)], 0).stack,
                             ArgOf(ret.val))
             /\ frames'[vm_frame(vm_frames)].f_lasti
                    = frames[vm_frame(vm_frames)].f_lasti
             /\ Head(calls').pc = "loop"
       /\ /\ Running("run", "start") /\ Cur.exc = None
          /\ CursorOn(frames[Cur.frame], "YIELD_FROM")
          /\ Len(calls) >= 3 /\ calls[3].fn = "gen_send_ex"
          => /\ top(frames[Cur.frame]) = calls[3].value
             /\ frames' = frames
             /\ Head(calls').pc = "loop"
       /\ /\ Running("run", "loop") /\ Cur.exc = None
          /\ CursorOn(frames[vm_frame(vm_frames)], "YIELD_FROM")
          /\ peek(frames[vm_frame(vm_frames)], 1) \in Iterators
          => /\ Head(calls').gen = peek(frames[vm_frame(vm_frames)], 1)
             /\ peek(frames[vm_frame(vm_frames)], 1) \in GenIds
                    => /\ Head(calls').fn = "gen_send_ex"
                       /\ Head(calls').value = top(frames[vm_frame(vm_frames)])
             /\ frames'[vm_frame(vm_frames)].stack
                    = pop(frames[vm_frame(vm_frames)], 0).stack]_vars

\* A generator suspended in `yield from` is resumed by send with a value
\* that is not None: the cursor is on YIELD_FROM, the sent value on top of
\* the sub-generator.
C33_Witness ==
    /\ Running("run", "start") /\ Cur.exc = None
    /\ CursorOn(frames[Cur.frame], "YIELD_FROM")
    /\ frames[Cur.frame].f_lasti > 0
    /\ Len(calls) >= 3 /\ calls[3].fn = "gen_send_ex"
    /\ calls[3].value # None
    /\ top(frames[Cur.frame]) = calls[3].value
    /\ peek(frames[Cur.frame], 1) \in GenIds

---------------------------------------------------------------------------
(* Claim about catching an exception and POP_EXCEPT, under SpecFn *)

\* The three values above the level of the block B on the stack of f, read
\* as an exception (type, value, tb).
SavedAt(f, B) ==
    <<f.stack[B.level + 3], f.stack[B.level + 2], f.stack[B.level + 1]>>

\* C34: an exception caught through a setup-except block B leaves the current
\* exception of before the raise above B.level, under an except-handler block
\* of that level; the three values stay there as long as the block does; and
\* POP_EXCEPT makes them the current exception again, removes the block and
\* cuts the value stack to B.level.  (An exception key that is not set reads
\* as (type(None), None, None).)
C34_CatchRoundTrip ==
    [][/\ Unwinds("exception", {"setup-except"})
          => LET B == TopBlock([fr |-> Dispatched.fr])
             IN  /\ TopBlock([fr |-> frames'["F1"]])
                        = [type |-> "except-handler", handler |-> None,
                           level |-> B.level]
                 /\ Len(frames'["F1"].block_stack) = Len(Dispatched.fr.block_stack)
                 /\ SavedAt(frames'["F1"], B) = GetExc(cache, "new_exception")
       /\ \A i \in DOMAIN frames["F1"].block_stack :
              /\ frames["F1"].block_stack[i].type = "except-handler"
              /\ i \in DOMAIN frames'["F1"].block_stack
              /\ frames'["F1"].block_stack[i] = frames["F1"].block_stack[i]
              => SavedAt(frames'["F1"], frames["F1"].block_stack[i])
                     = SavedAt(frames["F1"], frames["F1"].block_stack[i])
       /\ /\ AtOp("POP_EXCEPT")
          /\ frames["F1"].block_stack # <<>>
          /\ TopBlock([fr |-> frames["F1"]]).type = "except-handler"
          => LET B == TopBlock([fr |-> frames["F1"]])
             IN  /\ cache'.new_exception = SavedAt(frames["F1"], B)
                 /\ frames'["F1"].block_stack
                        = SubSeq(frames["F1"].block_stack, 1,
                                 Len(frames["F1"].block_stack) - 1)
                 /\ frames'["F1"].stack = SubSeq(frames["F1"].stack, 1, B.level)
                 /\ Head(calls').pc = "loop"]_vars

\* In "nested_except" the inner handler has ended with POP_EXCEPT: the
\* current exception is the outer ValueError again, not the RuntimeError the
\* inner handler caught, and the outer handler's block and saved values are
\* what is left.
C34_Witness ==
    /\ Running("run", "loop")
    /\ frames["F1"].f_code = "nested_except"
    /\ frames["F1"].f_lasti = 34
    /\ f_globals.E = "ValueError" /\ f_globals.H = "RuntimeError"
    /\ cache.new_exception[1] = "ValueError"
    /\ frames["F1"].block_stack
           = <<[type |-> "except-handler", handler |-> None, level |-> 0]>>
    /\ frames["F1"].stack = <<None, None, "NoneType">>

---------------------------------------------------------------------------
(* Claim about an exception swallowed by __exit__, under SpecFn *)

\* The top block of the frame f.
TopOf(f) == f.block_stack[Len(f.block_stack)]

\* WITH_CLEANUP_START is about to run for an exception: the pending
\* exception's class is on top of the stack of F1.
CleanupOfException ==
    /\ AtOp("WITH_CLEANUP_START")
    /\ IsClass(top(frames["F1"]))
    /\ frames["F1"].block_stack # <<>>
    /\ TopOf(frames["F1"]).type = "except-handler"

\* END_FINALLY is about to run on the marker WITH_CLEANUP_FINISH pushes when
\* __exit__ returned a true value.
Silenced == AtOp("END_FINALLY") /\ top(frames["F1"]) = "silenced"

\* C35: when __exit__ returns a true value for an exception raised in a with
\* body, the exception is swallowed.  Entering the handler through the
\* finally block B of the with statement (the __exit__ callable lies at
\* B.level) stores the current exception above B.level; WITH_CLEANUP_START
\* takes the __exit__ callable from under the two exception triples and
\* lowers the except-handler block's level by one, so that the stored
\* exception still lies just above the block's level; WITH_CLEANUP_FINISH
\* replaces (exception class, true value) by the marker 'silenced'; and
\* END_FINALLY on that marker ends with why none, removes the except-handler
\* block, cuts the stack to the block's level, which is the depth before the
\* context manager was pushed, and makes the stored exception the current
\* one.  In "with_raise" (depth 0, no current exception) and in
\* "with_in_except" (depth 3, the exception caught by the enclosing except
\* clause is current) the instruction after END_FINALLY is reached with just
\* that.
C35_ExitSwallows ==
    [][/\ /\ Unwinds("exception", {"finally"})
          /\ TopOf(Dispatched.fr).level >= 1
          /\ Dispatched.fr.stack[TopOf(Dispatched.fr).level] = "CM.__exit__"
          => LET B == TopOf(Dispatched.fr)
             IN  /\ TopOf(frames'["F1"])
                        = [type |-> "except-handler", handler |-> None,
                           level |-> B.level]
                 /\ SavedAt(frames'["F1"], B) = GetExc(cache, "new_exception")
                 /\ Len(frames'["F1"].stack) = B.level + 6
                 /\ frames'["F1"].stack[B.level] = "CM.__exit__"
       /\ CleanupOfException
          => LET B == TopOf(frames["F1"])
             IN  /\ Len(calls') = Len(calls) + 1
                 /\ Head(calls').pc = "__exit__"
                 /\ TopOf(frames'["F1"])
                        = [type |-> "except-handler", handler |-> None,
                           level |-> B.level - 1]
                 /\ SavedAt(frames'["F1"], TopOf(frames'["F1"]))
                        = SavedAt(frames["F1"], B)
                 /\ SubSeq(frames'["F1"].stack, 1, B.level - 1)
                        = SubSeq(frames["F1"].stack, 1, B.level - 1)
                 /\ \A i \in DOMAIN frames'["F1"].stack :
                        i >= B.level => frames'["F1"].stack[i] # "CM.__exit__"
       /\ /\ AtOp("WITH_CLEANUP_FINISH")
          /\ peek(frames["F1"], 1) # None
          /\ Truthy(peek(frames["F1"], 0))
          => /\ frames'["F1"].stack
                    = Append(SubSeq(frames["F1"].stack, 1,
                                    Len(frames["F1"].stack) - 2), "silenced")
             /\ frames'["F1"].block_stack = frames["F1"].block_stack
             /\ cache' = cache
             /\ Head(calls').pc = "loop"
       /\ Silenced
          => LET B == TopOf(frames["F1"])
             IN  /\ B.type = "except-handler"
                 /\ Head(calls').pc = "loop"
                 /\ frames'["F1"].block_stack
                        = SubSeq(frames["F1"].block_stack, 1,
                                 Len(frames["F1"].block_stack) - 1)
                 /\ frames'["F1"].stack = SubSeq(frames["F1"].stack, 1, B.level)
                 /\ cache'.new_exception = SavedAt(frames["F1"], B)
                 /\ cache'.last_exception = <<>>
       /\ /\ Running("run", "loop")
          /\ frames["F1"].f_code = "with_raise"
          /\ frames["F1"].f_lasti = 20
          => /\ frames["F1"].stack = <<>>
             /\ frames["F1"].block_stack = <<>>
             /\ GetExc(cache, "new_exception") = NoException
       /\ /\ Running("run", "loop")
          /\ frames["F1"].f_code = "with_in_except"
          /\ frames["F1"].f_lasti = 36
          => /\ Len(frames["F1"].stack) = 3
             /\ frames["F1"].block_stack
                    = <<[type |-> "except-handler", handler |-> None,
                         level |-> 0]>>
             /\ IsClass(f_globals.E)
                    => cache.new_exception[1] = f_globals.E]_vars

\* In "with_in_except", `with cm: raise RuntimeError` inside the handler of a
\* ValueError: __exit__ has returned True and END_FINALLY has run; the
\* ValueError is the current exception again and the handler's three saved
\* values are all that is left on the stack.
C35_Witness ==
    /\ Running("run", "loop")
    /\ frames["F1"].f_code = "with_in_except"
    /\ frames["F1"].f_lasti = 36
    /\ f_globals.E = "ValueError" /\ f_globals.H = "RuntimeError"
    /\ cache.new_exception[1] = "ValueError"
    /\ frames["F1"].stack = <<None, None, "NoneType">>
    /\ Len(frames["F1"].block_stack) = 1

---------------------------------------------------------------------------
(* Claims about when a generator is finished, under Spec *)

\* The module's last call was op on a generator that gen_send_ex's guards
\* let through: it was neither running nor finished, and no non-None value
\* was sent to it at cursor 0.
LastCallResumed(op) ==
    /\ Idle /\ results # <<>>
    /\ Last(results).op = op
    /\ ~Last(results).before.finished
    /\ ~Last(results).before.gi_running
    /\ Last(results).lasti = 0 => Last(results).arg = None

\* C38: when send()/next() on a generator has resumed the frame and ended
\* with an exception, the exception came out of the frame and the generator
\* is finished: the next send()/next() raises StopIteration.
C38_RaiseFinishes ==
    LastCallResumed("send") /\ Last(results).kind = "raise"
        => /\ gens[Last(results).gen].finished
           /\ send_guard(Last(results).gen, None, gens, frames)
                  = Inst("StopIteration", None)

\* The generator functions whose only suspension points are plain yields.
PlainYieldCodes == {"gen", "ignore1", "ignoreNone"}

\* C39: throw() on a suspended generator that catches the injected exception
\* and yields returns the yielded value and leaves the generator suspended,
\* not finished: a later next() passes gen_send_ex's guards and resumes the
\* frame.
C39_CaughtThrowSuspends ==
    (/\ LastCallResumed("throw")
     /\ Last(results).lasti > 0
     /\ Last(results).kind = "return"
     /\ frames[FrameOf(Last(results).gen)].f_code \in PlainYieldCodes)
        => /\ ~gens[Last(results).gen].finished
           /\ send_guard(Last(results).gen, None, gens, frames) = ""

---------------------------------------------------------------------------
(* Claim about an exception of an async generator's body, under SpecAsync *)

\* gen_send_ex has come back to AsyncGenASend.send with an exception that
\* the resumed frame raised: not the StopIteration of a generator that
\* finished, and not one of the exceptions of gen_send_ex's own guards.
BodyRaised ==
    /\ Running("AsyncGenASend.send", "sent")
    /\ ret.kind = "raise"
    /\ TypeOf(ret.val) # "StopIteration"
    /\ ret.val \notin {Inst("TypeError", MsgJustStarted),
                       Inst("ValueError", MsgRunning)}

\* C40: an exception the async generator's body raises while
\* AsyncGenASend.send resumes it leaves send as it is; it is not replaced by
\* StopAsyncIteration.
C40_BodyExceptionPropagates ==
    [][BodyRaised => calls' = Tail(calls) /\ ret' = ret]_vars

====
